---- MODULE Spec2Model ----
(***************************************************************************)
(* SolDocs: the documentation agent (src/src/agent/core.ts), the           *)
(* file-backed Store (src/unnamed/part_013), discovery/seeding             *)
(* (src/unnamed/part_012) and the mutating HTTP routes                     *)
(* (src/src/api/routes.ts), as one state machine.                          *)
(*                                                                         *)
(* Granularity: Node runs every synchronous stretch, and every chain of    *)
(* promise continuations that needs no I/O (the FileMutex only chains      *)
(* promises, the Store's file operations are synchronous), to completion   *)
(* before it serves the next I/O event.  A step of the model is therefore  *)
(* the code between two real suspension points: a chain RPC, an LLM call,  *)
(* the webhook POST, the inter-iteration sleep, an incoming HTTP request.  *)
(* An HTTP handler is one step.  The agent is cut at its I/O and, more      *)
(* finely, at the awaits that open processQueue, a batch and               *)
(* processProgram; the extra cuts only add interleavings.                  *)
(***************************************************************************)
EXTENDS Integers, Sequences, FiniteSets, TLC

\* ------------------------------------------------------------------ bounds
\* Program ids of the model (valid base58 ids).
Progs == {"p1"}

\* The environment injects failures only while the agent holds fewer than
\* MaxErrors recorded errors.
MaxErrors == 1

\* Largest agentConcurrency of the batch scenarios.
MaxConcurrency == 3

\* Number of FileMutex.acquire calls of the mutex scenarios.
MaxCalls == 3

\* ------------------------------------------------------- program constants
UPGRADE_CHECK_EVERY == 12
MAX_ATTEMPTS == 10
ERROR_RING_CAP == 50
BATCH_SIZE == 5

\* ---------------------------------------------------------------- values
\* `lastError` / `errorMessage` left undefined.
Undefined == "undefined"
\* idlHash of a failed ProgramMetadata is the empty string.
EmptyHash == 0

\* Anchor IDLs: name, number of instructions, number of account types.
IdlX == [name |-> "x", instructions |-> 1, accounts |-> 0]
IdlY == [name |-> "y", instructions |-> 6, accounts |-> 1]
Idls == {IdlX, IdlY}

NameCode(n) == CASE n = "x" -> 1 [] n = "y" -> 2 [] OTHER -> 3

\* hashIdl: a digest of the serialized IDL; never the empty hash.
hashIdl(idl) ==
  1 + ((NameCode(idl.name) * 31 + idl.instructions * 7 + idl.accounts) % 251)

\* getIdlName: idl.name || idl.metadata?.name || 'unknown_program'
getIdlName(idl) ==
  IF idl.name # "" THEN idl.name
  ELSE IF "metadataName" \in DOMAIN idl /\ idl.metadataName # "" THEN idl.metadataName
  ELSE "unknown_program"

\* Error messages.
MsgNotFound == "Program account not found on Solana"
MsgNotExec  == "Account is not an executable program"
MsgNoIdl    == "No Anchor IDL found"
MsgChain    == "fetch failed"
MsgLlm      == "AI generation failed"

\* --------------------------------------------------------- Store (pure)
\* Array.prototype.findIndex on programId; 0 when absent.
FindIndex(seq, id) ==
  IF \E i \in 1..Len(seq) : seq[i].programId = id
  THEN CHOOSE i \in 1..Len(seq) :
         /\ seq[i].programId = id
         /\ \A j \in 1..(i - 1) : seq[j].programId # id
  ELSE 0

Has(seq, id) == FindIndex(seq, id) > 0

Find(seq, id) == seq[FindIndex(seq, id)]

saveProgram_ReplacesLast(programs, program) ==
  IF Len(programs) > 0 THEN [programs EXCEPT ![Len(programs)] = program]
  ELSE Append(programs, program)

saveProgram(programs, program) ==
  LET idx == FindIndex(programs, program.programId) IN
  IF idx > 0 THEN [programs EXCEPT ![idx] = program]
  ELSE Append(programs, program)

removeProgram(programs, id) ==
  LET Keep(p) == p.programId # id IN SelectSeq(programs, Keep)

NewItem(id) ==
  [programId |-> id, status |-> "pending", attempts |-> 0, lastError |-> Undefined]

addToQueue_NoDedup(queue, id) ==
  [queue |-> Append(queue, NewItem(id)), item |-> NewItem(id), isNew |-> TRUE]

addToQueue_KeepAttempts(queue, id) ==
  LET idx == FindIndex(queue, id) IN
  IF idx > 0 /\ queue[idx].status # "failed"
  THEN [queue |-> queue, item |-> queue[idx], isNew |-> FALSE]
  ELSE IF idx > 0
  THEN LET reset == [queue[idx] EXCEPT !.status = "pending"] IN
       [queue |-> [queue EXCEPT ![idx] = reset], item |-> reset, isNew |-> FALSE]
  ELSE [queue |-> Append(queue, NewItem(id)), item |-> NewItem(id), isNew |-> TRUE]

\* Store.addToQueue: the queue after the call, the returned item and isNew.
addToQueue(queue, id) ==
  LET idx == FindIndex(queue, id) IN
  IF idx > 0 /\ queue[idx].status # "failed"
  THEN [queue |-> queue, item |-> queue[idx], isNew |-> FALSE]
  ELSE IF idx > 0 /\ queue[idx].status = "failed"
  THEN LET reset == [queue[idx] EXCEPT !.status = "pending",
                                       !.attempts = 0,
                                       !.lastError = Undefined] IN
       [queue |-> [queue EXCEPT ![idx] = reset], item |-> reset, isNew |-> FALSE]
  ELSE [queue |-> Append(queue, NewItem(id)), item |-> NewItem(id), isNew |-> TRUE]

\* { ...queue[idx], ...update }
Merge(item, update) ==
  [f \in DOMAIN item |-> IF f \in DOMAIN update THEN update[f] ELSE item[f]]

updateQueueItem(queue, id, update) ==
  LET idx == FindIndex(queue, id) IN
  IF idx > 0 THEN [queue EXCEPT ![idx] = Merge(queue[idx], update)]
  ELSE queue

removeFromQueue_KeepsItem(queue, id) == queue

removeFromQueue(queue, id) ==
  LET Keep(q) == q.programId # id IN SelectSeq(queue, Keep)

getPendingItems_Nothing(queue) == << >>

getPendingItems_WithFailed(queue) ==
  LET Keep(q) == q.status \in {"pending", "failed"} IN SelectSeq(queue, Keep)

getPendingItems(queue) ==
  LET Keep(q) == q.status = "pending" IN SelectSeq(queue, Keep)

\* The count recoverStuckItems returns.
Stuck(queue) == Cardinality({i \in 1..Len(queue) : queue[i].status = "processing"})

recoverStuckItems_Drop(queue) ==
  LET Keep(q) == q.status # "processing" IN SelectSeq(queue, Keep)

recoverStuckItems(queue) ==
  [i \in 1..Len(queue) |->
     IF queue[i].status = "processing"
     THEN [queue[i] EXCEPT !.status = "pending"]
     ELSE queue[i]]

\* A directory of <id>.json files: a function whose domain is the ids present.
Put(dir, id, rec) == [k \in (DOMAIN dir) \cup {id} |-> IF k = id THEN rec ELSE dir[k]]

Unlink(dir, id) == [k \in (DOMAIN dir) \ {id} |-> dir[k]]

IdlCacheRec(id, idl) == [programId |-> id, idl |-> idl, hash |-> hashIdl(idl)]

saveIdlCache(idls, id, idl) == Put(idls, id, IdlCacheRec(id, idl))

removeIdlCache_KeepsFile(idls, id) == idls

removeIdlCache(idls, id) == Unlink(idls, id)

saveDocs(docs, doc) == Put(docs, doc.programId, doc)

removeDocs(docs, id) == Unlink(docs, id)

\* ------------------------------------------------ discovery (part_012)
\* The bundled seed list, cut down to the ids of the model.
SEED_PROGRAMS == << [programId |-> "p1", idl |-> IdlX] >>

\* SEED_IDL_MAP[program.idlFile] is there and its instructions are an array
\* (part_012 47-57); a seed without the fields is a bundled, well-formed one.
SeedValid(program) ==
  /\ "bundled" \in DOMAIN program => program.bundled
  /\ "instructionsKind" \in DOMAIN program.idl => program.idl.instructionsKind = "array"

\* The loop over the seed list `seeds` from position k on.
RECURSIVE SeedLoop(_, _, _, _)
SeedLoop(seeds, k, queue, idls) ==
  IF k > Len(seeds) THEN [queue |-> queue, idls |-> idls, seeded |-> 0]
  ELSE LET program == seeds[k] IN
       IF ~SeedValid(program) THEN SeedLoop(seeds, k + 1, queue, idls)
       ELSE LET rest == SeedLoop(seeds, k + 1,
                                 addToQueue(queue, program.programId).queue,
                                 saveIdlCache(idls, program.programId, program.idl))
            IN [rest EXCEPT !.seeded = @ + 1]

seedQueue_QueueOnly(seeds, queue, programs, idls) ==
  IF Len(queue) > 0
  THEN [queue |-> queue, idls |-> idls, seeded |-> 0]
  ELSE SeedLoop(seeds, 1, queue, idls)

\* seedQueueIfEmpty for the seed list `seeds`.
seedQueue(seeds, queue, programs, idls) ==
  IF Len(queue) > 0 \/ Len(programs) > 0
  THEN [queue |-> queue, idls |-> idls, seeded |-> 0]
  ELSE SeedLoop(seeds, 1, queue, idls)

seedQueueIfEmpty(queue, programs, idls) == seedQueue(SEED_PROGRAMS, queue, programs, idls)

\* checkForUpgrades: ids of the documented programs, in index order.
checkForUpgrades(programs) ==
  LET Documented(p) == p.status = "documented"
      docd == SelectSeq(programs, Documented)
  IN [i \in 1..Len(docd) |-> docd[i].programId]

\* ------------------------------------------------ doc generator (spec 4.5)
AllSections == {"overview", "instructions", "accounts", "security"}

NumBatches(n) == (n + BATCH_SIZE - 1) \div BATCH_SIZE

HasAccountsPass(idl) == idl.accounts > 0

\* The LLM calls of one generation, in order.
Passes(idl) ==
  << "overview" >>
  \o [i \in 1..NumBatches(idl.instructions) |-> "instructions"]
  \o (IF HasAccountsPass(idl) THEN << "accounts" >> ELSE << >>)
  \o << "security" >>

\* Sections that are complete once the first k calls have returned.
SectionsAfter(idl, k) ==
  LET ps == Passes(idl) IN
  {s \in AllSections :
     \/ /\ s = "accounts"
        /\ ~HasAccountsPass(idl)
        /\ k >= 1 + NumBatches(idl.instructions)
     \/ /\ \E i \in 1..Len(ps) : ps[i] = s
        /\ \A i \in 1..Len(ps) : ps[i] = s => i <= k}

MakeDoc(idl, programId, idlHash, k) ==
  [programId |-> programId, name |-> getIdlName(idl), idlHash |-> idlHash,
   sections |-> SectionsAfter(idl, k)]

\* DocGenerator.generate, one LLM call at a time: call number `pass` returned
\* (ok) or threw.  The Documentation is assembled after the last call only.
GenStep(idl, programId, idlHash, pass, ok) ==
  IF ~ok THEN [result |-> "throw", doc |-> MakeDoc(idl, programId, idlHash, pass - 1)]
  ELSE IF pass < Len(Passes(idl))
  THEN [result |-> "running", doc |-> MakeDoc(idl, programId, idlHash, pass)]
  ELSE [result |-> "done", doc |-> MakeDoc(idl, programId, idlHash, pass)]

\* ------------------------------------------------------------ the state
VARIABLES
  programs,             \* programs.json: sequence of ProgramMetadata
  queue,                \* queue.json: sequence of QueueItem
  idls,                 \* idls/<id>.json
  docs,                 \* docs/<id>.json
  config,               \* webhookUrl configured?, agentConcurrency
  running,              \* Agent.running
  errors,               \* Agent.state.errors (the error ring)
  upgradeCheckCounter,  \* Agent.upgradeCheckCounter
  agentPc,              \* where start() is: idle, loop, batch, join, upgrade, sleep
  pending,              \* processQueue: the snapshot of pending items
  batchStart,           \* processQueue: the loop index i
  tasks,                \* processProgramSafe calls of the batch in flight
  upgradeList,          \* checkUpgrades: programIds still to check
  resp,                 \* what the step just taken reported: an HTTP answer,
                        \* the number of items start() recovered, or the
                        \* error a Store call threw
  mx,                   \* the Store's FileMutex: locks, settled promises and
                        \* the acquire calls made so far
  held,                 \* the AgentState object the last getState() call
                        \* returned, as its caller holds it
  disk,                 \* the data directory at the level of files: the text
                        \* of every file, a write in progress, the last read
  net                   \* the chain client and the LLM client: the clock,
                        \* lastCallTime, the withRetry and generate calls

store == << programs, queue, idls, docs >>
agent == << running, errors, upgradeCheckCounter, agentPc, pending, batchStart,
            tasks, upgradeList >>
vars == << programs, queue, idls, docs, config, running, errors,
           upgradeCheckCounter, agentPc, pending, batchStart, tasks,
           upgradeList, resp, mx, held, disk, net >>

EmptyDir == [k \in {} |-> 0]

\* programs.json and queue.json, the two paths the Store locks.
Paths == {"programsFile", "queueFile"}

\* new FileMutex(): no lock entry (0), no promise settled, no acquire call.
MxIdle == [locks |-> [f \in Paths |-> 0], resolved |-> {}, calls |-> << >>]

\* ------------------------------------------- JSON files (part_013 157-176)
\* JSON values as the Store writes them: arrays (programs.json, queue.json),
\* objects (a Documentation, an IDLCache) and null.  The text of a file is a
\* sequence of tokens.
Atoms == {"a", "b"}

Array(items) == [kind |-> "array", items |-> items]
Object(items) == [kind |-> "object", items |-> items]
Null == [kind |-> "null", items |-> << >>]

\* What JSON.parse throws.
ParseError == [kind |-> "SyntaxError", items |-> << >>]

\* items joined by commas.
Commas(items) ==
  [i \in 1..(IF Len(items) = 0 THEN 0 ELSE 2 * Len(items) - 1) |->
     IF i % 2 = 1 THEN items[(i + 1) \div 2] ELSE ","]

\* JSON.stringify
Stringify(v) ==
  CASE v.kind = "array" -> << "[" >> \o Commas(v.items) \o << "]" >>
    [] v.kind = "object" -> << "{" >> \o Commas(v.items) \o << "}" >>
    [] OTHER -> << "null" >>

\* The tokens between the brackets are atoms separated by commas.
IsItems(mid) ==
  \/ Len(mid) = 0
  \/ /\ Len(mid) % 2 = 1
     /\ \A i \in 1..Len(mid) : IF i % 2 = 1 THEN mid[i] \in Atoms ELSE mid[i] = ","

ItemsOf(mid) == [k \in 1..((Len(mid) + 1) \div 2) |-> mid[2 * k - 1]]

\* JSON.parse: the value, or ParseError for a text that is not JSON.
Parse(text) ==
  LET mid == SubSeq(text, 2, Len(text) - 1) IN
  IF text = << "null" >> THEN Null
  ELSE IF Len(text) >= 2 /\ text[1] = "[" /\ text[Len(text)] = "]" /\ IsItems(mid)
  THEN Array(ItemsOf(mid))
  ELSE IF Len(text) >= 2 /\ text[1] = "{" /\ text[Len(text)] = "}" /\ IsItems(mid)
  THEN Object(ItemsOf(mid))
  ELSE ParseError

\* fs.renameSync on a directory given as a function from names to texts.
Rename(files, from, to) ==
  [n \in ((DOMAIN files) \ {from}) \cup {to} |-> IF n = to THEN files[from] ELSE files[n]]

TmpOf_InPlace(path) == path

\* filePath + '.tmp'
TmpOf(path) == path \o ".tmp"

\* filePath + '.corrupt.' + Date.now()
CorruptName(path, epoch) == path \o ".corrupt." \o ToString(epoch)

\* The fallback the Store passes for a path: [] for the two lists, null for
\* a docs or IDL file (part_013 243, 283, 375, 400).
Fallback(path) == IF path \in {"programs.json", "queue.json"} THEN Array(<< >>) ELSE Null

safeReadJson_NoBackup(files, filePath, fallback, epoch) ==
  IF filePath \notin DOMAIN files
  THEN [files |-> files, value |-> fallback, recovered |-> FALSE]
  ELSE IF Parse(files[filePath]) # ParseError
  THEN [files |-> files, value |-> Parse(files[filePath]), recovered |-> FALSE]
  ELSE [files |-> files, value |-> fallback, recovered |-> TRUE]

\* safeReadJson at the time `epoch`: the directory after the call, the value
\* returned and whether the catch branch ran.
safeReadJson(files, filePath, fallback, epoch) ==
  IF filePath \notin DOMAIN files
  THEN [files |-> files, value |-> fallback, recovered |-> FALSE]
  ELSE IF Parse(files[filePath]) # ParseError
  THEN [files |-> files, value |-> Parse(files[filePath]), recovered |-> FALSE]
  ELSE [files |-> Rename(files, filePath, CorruptName(filePath, epoch)),
        value |-> fallback, recovered |-> TRUE]

\* safeWriteJson run to its end.
safeWriteJson(files, filePath, data) ==
  Rename(Put(files, TmpOf(filePath), Stringify(data)), TmpOf(filePath), filePath)

\* No file operation done yet, no write in progress.
NoOp == [kind |-> "none", path |-> "", value |-> Null, recovered |-> FALSE]
WrIdle == [pc |-> "idle", path |-> "", text |-> << >>]

\* The data directory after new Store(dataDir) (ensureDirs, part_013 227-239).
DiskInit ==
  [files |-> [n \in {"programs.json", "queue.json"} |-> Stringify(Array(<< >>))],
   wr |-> WrIdle, op |-> NoOp]

\* ---------------------------------- chain and LLM clients (part_015 1-79)
\* An error message is the sequence of its characters.
\* String.prototype.includes
Includes(message, pat) ==
  \E i \in 0..(Len(message) - Len(pat)) : SubSeq(message, i + 1, i + Len(pat)) = pat

S429 == << "4", "2", "9" >>
S500 == << "5", "0", "0" >>
S502 == << "5", "0", "2" >>
S503 == << "5", "0", "3" >>
S529 == << "5", "2", "9" >>

\* Messages of the errors a call can fail with: with one of the status codes
\* at the start, in the middle or at the end, without any, or empty.
ErrorMessages ==
  { S429,
    << "g", "o", "t", " " >> \o S502,
    S503 \o << "!" >>,
    S500,
    << "x" >> \o S529 \o << "x" >>,
    << "E", "O", "F" >>,
    << >>,
    << "4", "2", " ", "9" >> }

\* An Error object: its message and the number of the invocation that threw
\* it (two errors with the same message are still two objects).
NoError == [message |-> << >>, no |-> 0]

RpcRetryable_Any(message) == TRUE

\* SolanaClient.withRetry, line 21
RpcRetryable(message) ==
  Includes(message, S429) \/ Includes(message, S503) \/ Includes(message, S502)

LlmRetryable_Any(message) == TRUE

\* AIClient.generate, line 68
LlmRetryable(message) ==
  Includes(message, S429) \/ Includes(message, S529) \/ Includes(message, S500)

\* AIClient: minIntervalMs, the attempts of the loop, the base of the backoff.
minIntervalMs == 500
LLM_ATTEMPTS == 3
LLM_BACKOFF_MS == 2000

\* The clock moves in steps of TickMs and starts at StartMs (Date.now()).
TickMs == 250
StartMs == 1000

\* generate() calls that can be in flight on one AIClient.
MaxCallers == 2
Callers == 1..MaxCallers

RECURSIVE Pow2(_)
Pow2(n) == IF n = 0 THEN 1 ELSE 2 * Pow2(n - 1)

RtIdle == [pc |-> "idle", maxRetries |-> 0, attempt |-> 0, invocations |-> 0,
           lastError |-> NoError, thrown |-> NoError, result |-> "none"]

GenIdle == [pc |-> "idle", attempt |-> 0, wake |-> 0, calls |-> 0,
            lastError |-> NoError, thrown |-> NoError, result |-> "none"]

\* new SolanaClient(), new AIClient(): lastCallTime = 0, no call made.
NetIdle == [now |-> StartMs, lastCallTime |-> 0, rt |-> RtIdle,
            gens |-> [c \in Callers |-> GenIdle]]

\* No getState() result is held.  `shared` says that the errors list of the
\* held object is the very array the agent's state.errors refers to; `errors`
\* is the content of the held list when it is an array of its own.
NotHeld == [taken |-> FALSE, shared |-> FALSE, errors |-> << >>, running |-> FALSE,
            queueLength |-> 0, edits |-> 0]

\* The programId of a request body: its JavaScript type and, for a string,
\* its characters (a program id counts as one character).
NoBody == [type |-> "undefined", chars |-> << >>]

NoResp == [op |-> "none", id |-> "", code |-> 0, isNew |-> FALSE, count |-> 0, error |-> "",
           body |-> NoBody]

Configs == [webhookUrl : BOOLEAN, agentConcurrency : {1}]

\* A fresh data directory (Store.ensureDirs) and a constructed Agent.
Init ==
  /\ programs = << >>
  /\ queue = << >>
  /\ idls = EmptyDir
  /\ docs = EmptyDir
  /\ config \in Configs
  /\ running = FALSE
  /\ errors = << >>
  /\ upgradeCheckCounter = 0
  /\ agentPc = "idle"
  /\ pending = << >>
  /\ batchStart = 0
  /\ tasks = EmptyDir
  /\ upgradeList = << >>
  /\ resp = NoResp
  /\ mx = MxIdle
  /\ held = NotHeld
  /\ disk = DiskInit
  /\ net = NetIdle

\* ------------------------------------------------------- agent (core.ts)
NoIdl == [name |-> "", instructions |-> 0, accounts |-> 0]

\* One processProgramSafe(item) call: where it is suspended, item.attempts of
\* the snapshot, the IDL and hash it works on, the LLM calls issued so far,
\* the webhook POSTs sent so far.
NewTask(item) ==
  [pc |-> "start", attempts |-> item.attempts, idl |-> NoIdl, hash |-> EmptyHash,
   pass |-> 0, posts |-> 0, outcome |-> "none"]

\* item.programId.slice(0, 8) + '...'
ShortName(id) == id \o "..."

FailedRec(id, msg) ==
  [programId |-> id, name |-> ShortName(id), instructionCount |-> 0,
   accountCount |-> 0, status |-> "failed", idlHash |-> EmptyHash,
   errorMessage |-> msg]

DocumentedRec(id, idl, hash) ==
  [programId |-> id, name |-> getIdlName(idl), instructionCount |-> idl.instructions,
   accountCount |-> idl.accounts, status |-> "documented", idlHash |-> hash,
   errorMessage |-> Undefined]

addError_KeepsOldest(ring, programId, message) ==
  LET pushed == Append(ring, [programId |-> programId, message |-> message]) IN
  IF Len(pushed) > ERROR_RING_CAP THEN SubSeq(pushed, 1, ERROR_RING_CAP) ELSE pushed

\* Agent.addError
addError(ring, programId, message) ==
  LET pushed == Append(ring, [programId |-> programId, message |-> message]) IN
  IF Len(pushed) > ERROR_RING_CAP
  THEN SubSeq(pushed, Len(pushed) - ERROR_RING_CAP + 1, Len(pushed))
  ELSE pushed

Settle(p, outcome) == [tasks EXCEPT ![p].pc = "settled", ![p].outcome = outcome]

\* The environment may still inject a failure.
MayFail == Len(errors) < MaxErrors

ProcessFail_KeepsPartial(p, msg, q) ==
  /\ queue' = updateQueueItem(q, p, [status |-> "failed",
                                     attempts |-> tasks[p].attempts + 1,
                                     lastError |-> msg])
  /\ programs' = saveProgram(programs, FailedRec(p, msg))
  /\ errors' = addError(errors, p, msg)
  /\ tasks' = Settle(p, "failed")
  /\ docs' = IF tasks[p].pc = "llm"
             THEN saveDocs(docs, MakeDoc(tasks[p].idl, p, tasks[p].hash, tasks[p].pass - 1))
             ELSE docs
  /\ UNCHANGED idls

ProcessFail_AbortsBatch(p, msg, q) ==
  /\ queue' = updateQueueItem(q, p, [status |-> "failed",
                                     attempts |-> tasks[p].attempts + 1,
                                     lastError |-> msg])
  /\ programs' = saveProgram(programs, FailedRec(p, msg))
  /\ errors' = addError(errors, p, msg)
  /\ tasks' = [t \in DOMAIN tasks |->
                [tasks[t] EXCEPT !.pc = "settled",
                                 !.outcome = IF tasks[t].pc = "settled" THEN @ ELSE "failed"]]
  /\ UNCHANGED << idls, docs >>

\* processProgramSafe, catch branch (core.ts 134-155); q is the queue now.
ProcessFail(p, msg, q) ==
  /\ queue' = updateQueueItem(q, p, [status |-> "failed",
                                     attempts |-> tasks[p].attempts + 1,
                                     lastError |-> msg])
  /\ programs' = saveProgram(programs, FailedRec(p, msg))
  /\ errors' = addError(errors, p, msg)
  /\ tasks' = Settle(p, "failed")
  /\ UNCHANGED << idls, docs >>

SaveAndCompare_AlwaysGenerate(p, idl, q) ==
  /\ idls' = saveIdlCache(idls, p, idl)
  /\ queue' = q
  /\ tasks' = [tasks EXCEPT ![p].pc = "llm", ![p].idl = idl,
                            ![p].hash = hashIdl(idl), ![p].pass = 1]
  /\ UNCHANGED << programs, docs, errors >>

\* processProgram step 3 (core.ts 184-193) and the first LLM call of step 4.
SaveAndCompare(p, idl, q) ==
  LET existingCache == p \in DOMAIN idls
      newHash == hashIdl(idl)
      existingDocs == p \in DOMAIN docs
  IN /\ idls' = saveIdlCache(idls, p, idl)
     /\ IF existingCache /\ existingDocs /\ idls[p].hash = newHash
        THEN /\ queue' = removeFromQueue(q, p)
             /\ tasks' = Settle(p, "unchanged")
        ELSE /\ queue' = q
             /\ tasks' = [tasks EXCEPT ![p].pc = "llm", ![p].idl = idl,
                                       ![p].hash = newHash, ![p].pass = 1]
     /\ UNCHANGED << programs, docs, errors >>

\* processProgram steps 1-2 (core.ts 161-168): mark processing, look in the cache.
Begin(p) ==
  /\ p \in DOMAIN tasks
  /\ tasks[p].pc = "start"
  /\ LET q == updateQueueItem(queue, p, [status |-> "processing"]) IN
     IF p \in DOMAIN idls
     THEN SaveAndCompare(p, idls[p].idl, q)
     ELSE /\ queue' = q
          /\ tasks' = [tasks EXCEPT ![p].pc = "fetchInfo"]
          /\ UNCHANGED << programs, idls, docs, errors >>
  /\ UNCHANGED << config, running, upgradeCheckCounter, agentPc, pending,
                  batchStart, upgradeList >>
  /\ resp' = NoResp
  /\ UNCHANGED << mx, held, disk, net >>

\* fetchProgramInfo returned info, null or a non-executable account
\* (core.ts 170-176).
FetchInfoReturn(p) ==
  /\ p \in DOMAIN tasks
  /\ tasks[p].pc = "fetchInfo"
  /\ \/ /\ tasks' = [tasks EXCEPT ![p].pc = "fetchIdl"]
        /\ UNCHANGED << store, errors >>
     \/ /\ MayFail
        /\ \E msg \in {MsgNotFound, MsgNotExec} : ProcessFail(p, msg, queue)
  /\ UNCHANGED << config, running, upgradeCheckCounter, agentPc, pending,
                  batchStart, upgradeList >>
  /\ resp' = NoResp
  /\ UNCHANGED << mx, held, disk, net >>

\* fetchIdl returned an IDL, null, or threw (core.ts 178-181).
FetchIdlReturn(p) ==
  /\ p \in DOMAIN tasks
  /\ tasks[p].pc = "fetchIdl"
  /\ \/ \E idl \in Idls : SaveAndCompare(p, idl, queue)
     \/ /\ MayFail
        /\ \E msg \in {MsgNoIdl, MsgChain} : ProcessFail(p, msg, queue)
  /\ UNCHANGED << config, running, upgradeCheckCounter, agentPc, pending,
                  batchStart, upgradeList >>
  /\ resp' = NoResp
  /\ UNCHANGED << mx, held, disk, net >>

Persist_NoUrlCheck(p, doc) ==
  /\ docs' = saveDocs(docs, doc)
  /\ programs' = saveProgram(programs, DocumentedRec(p, tasks[p].idl, tasks[p].hash))
  /\ tasks' = [tasks EXCEPT ![p].pc = "webhook", ![p].posts = @ + 1]
  /\ UNCHANGED << queue, idls, errors >>

\* processProgram steps 4-7 once generate() has returned (core.ts 198-217):
\* with a webhookUrl the POST is sent and awaited (webhook.ts 33).
Persist(p, doc) ==
  /\ docs' = saveDocs(docs, doc)
  /\ programs' = saveProgram(programs, DocumentedRec(p, tasks[p].idl, tasks[p].hash))
  /\ IF config.webhookUrl
     THEN /\ tasks' = [tasks EXCEPT ![p].pc = "webhook", ![p].posts = @ + 1]
          /\ UNCHANGED queue
     ELSE /\ queue' = removeFromQueue(queue, p)
          /\ tasks' = Settle(p, "documented")
  /\ UNCHANGED << idls, errors >>

\* One LLM call of docGen.generate returned or threw (core.ts 197).
LlmReturn(p) ==
  /\ p \in DOMAIN tasks
  /\ tasks[p].pc = "llm"
  /\ \E ok \in BOOLEAN :
       /\ ok \/ MayFail
       /\ LET t == tasks[p]
              r == GenStep(t.idl, p, t.hash, t.pass, ok)
          IN CASE r.result = "throw" -> ProcessFail(p, MsgLlm, queue)
               [] r.result = "running" ->
                    /\ tasks' = [tasks EXCEPT ![p].pass = @ + 1]
                    /\ UNCHANGED << store, errors >>
               [] OTHER -> Persist(p, r.doc)
  /\ UNCHANGED << config, running, upgradeCheckCounter, agentPc, pending,
                  batchStart, upgradeList >>
  /\ resp' = NoResp
  /\ UNCHANGED << mx, held, disk, net >>

\* What the webhook sink can answer: an HTTP status, 0 when the request
\* failed in transport or timed out.
WebhookAnswers == {200, 500, 0}

\* sendWebhookNotification (webhook.ts 33-42): the error it throws, "" if none.
sendWebhookNotification(answer) ==
  IF answer = 0 THEN "Network error"
  ELSE IF answer < 200 \/ answer > 299 THEN "Webhook returned HTTP"
  ELSE ""

notifyWebhook_Rethrows(thrown) == thrown

\* notifyWebhook (core.ts 244-252): the error that leaves it; the catch logs
\* and drops whatever sendWebhookNotification threw.
notifyWebhook(thrown) == ""

\* The webhook POST was answered (core.ts 214-217); resp holds the answer.
WebhookReturn(p) ==
  /\ p \in DOMAIN tasks
  /\ tasks[p].pc = "webhook"
  /\ \E answer \in WebhookAnswers :
       LET escaped == notifyWebhook(sendWebhookNotification(answer)) IN
         /\ IF escaped = ""
            THEN /\ queue' = removeFromQueue(queue, p)
                 /\ tasks' = Settle(p, "documented")
                 /\ UNCHANGED << programs, idls, docs, errors >>
            ELSE ProcessFail(p, escaped, queue)
         /\ resp' = [NoResp EXCEPT !.op = "webhook", !.id = p, !.code = answer]
  /\ UNCHANGED << config, running, upgradeCheckCounter, agentPc, pending,
                  batchStart, upgradeList >>
  /\ UNCHANGED << mx, held, disk, net >>

\* Agent.start up to the main loop (core.ts 52-65).
Start ==
  /\ agentPc = "idle"
  /\ running' = TRUE
  /\ LET seed == seedQueueIfEmpty(recoverStuckItems(queue), programs, idls) IN
       /\ queue' = seed.queue
       /\ idls' = seed.idls
  /\ agentPc' = "loop"
  /\ resp' = [NoResp EXCEPT !.op = "start", !.count = Stuck(queue)]
  /\ UNCHANGED << programs, docs, config, errors, upgradeCheckCounter, pending,
                  batchStart, tasks, upgradeList >>
  /\ UNCHANGED << mx, held, disk, net >>

\* Agent.stop
Stop ==
  /\ running
  /\ running' = FALSE
  /\ UNCHANGED << store, config, errors, upgradeCheckCounter, agentPc, pending,
                  batchStart, tasks, upgradeList >>
  /\ resp' = NoResp
  /\ UNCHANGED << mx, held, disk, net >>

\* processQueue: the snapshot (core.ts 99-103).
ProcessQueue ==
  /\ agentPc = "loop"
  /\ pending' = getPendingItems(queue)
  /\ batchStart' = 0
  /\ agentPc' = "batch"
  /\ UNCHANGED << store, config, running, errors, upgradeCheckCounter, tasks,
                  upgradeList >>
  /\ resp' = NoResp
  /\ UNCHANGED << mx, held, disk, net >>

Batch_WholeSnapshot(items, i, concurrency) == SubSeq(items, i + 1, Len(items))

\* batch = pending.slice(i, i + concurrency)
Batch(items, i, concurrency) ==
  SubSeq(items, i + 1, IF i + concurrency < Len(items) THEN i + concurrency
                       ELSE Len(items))

StartBatch_IgnoresStop ==
  /\ agentPc = "batch"
  /\ batchStart < Len(pending)
  /\ LET batch == Batch(pending, batchStart, config.agentConcurrency) IN
       tasks' = [p \in {batch[k].programId : k \in 1..Len(batch)} |->
                   NewTask(Find(batch, p))]
  /\ agentPc' = "join"
  /\ UNCHANGED << store, config, running, errors, upgradeCheckCounter, pending,
                  batchStart, upgradeList >>
  /\ resp' = NoResp
  /\ UNCHANGED << mx, held, disk, net >>

\* processQueue: launch the next batch (core.ts 109-115).
StartBatch ==
  /\ agentPc = "batch"
  /\ batchStart < Len(pending)
  /\ running
  /\ LET batch == Batch(pending, batchStart, config.agentConcurrency) IN
       tasks' = [p \in {batch[k].programId : k \in 1..Len(batch)} |->
                   NewTask(Find(batch, p))]
  /\ agentPc' = "join"
  /\ UNCHANGED << store, config, running, errors, upgradeCheckCounter, pending,
                  batchStart, upgradeList >>
  /\ resp' = NoResp
  /\ UNCHANGED << mx, held, disk, net >>

\* Promise.allSettled resolved (core.ts 113-128).
Join ==
  /\ agentPc = "join"
  /\ \A p \in DOMAIN tasks : tasks[p].pc = "settled"
  /\ batchStart' = batchStart + config.agentConcurrency
  /\ tasks' = EmptyDir
  /\ agentPc' = "batch"
  /\ UNCHANGED << store, config, running, errors, upgradeCheckCounter, pending,
                  upgradeList >>
  /\ resp' = NoResp
  /\ UNCHANGED << mx, held, disk, net >>

AfterIteration_EndsLoop(isRunning) == "idle"

\* After the try block: sleep if still running, else the while loop ends.
AfterIteration(isRunning) == IF isRunning THEN "sleep" ELSE "idle"

EndQueue_TestsBeforeIncrement ==
  /\ agentPc = "batch"
  /\ batchStart >= Len(pending) \/ ~running
  /\ IF upgradeCheckCounter >= UPGRADE_CHECK_EVERY
     THEN /\ upgradeCheckCounter' = 0
          /\ upgradeList' = checkForUpgrades(programs)
          /\ agentPc' = IF checkForUpgrades(programs) = << >>
                        THEN AfterIteration(running) ELSE "upgrade"
     ELSE /\ upgradeCheckCounter' = upgradeCheckCounter + 1
          /\ upgradeList' = << >>
          /\ agentPc' = AfterIteration(running)
  /\ UNCHANGED << store, config, running, errors, pending, batchStart, tasks >>
  /\ resp' = NoResp
  /\ UNCHANGED << mx, held, disk, net >>

\* processQueue returned; the upgrade counter (core.ts 71-78, 84-88).
EndQueue ==
  /\ agentPc = "batch"
  /\ batchStart >= Len(pending) \/ ~running
  /\ IF upgradeCheckCounter + 1 >= UPGRADE_CHECK_EVERY
     THEN /\ upgradeCheckCounter' = 0
          /\ upgradeList' = checkForUpgrades(programs)
          /\ agentPc' = IF checkForUpgrades(programs) = << >>
                        THEN AfterIteration(running) ELSE "upgrade"
     ELSE /\ upgradeCheckCounter' = upgradeCheckCounter + 1
          /\ upgradeList' = << >>
          /\ agentPc' = AfterIteration(running)
  /\ UNCHANGED << store, config, running, errors, pending, batchStart, tasks >>
  /\ resp' = NoResp
  /\ UNCHANGED << mx, held, disk, net >>

\* checkUpgrades: fetchIdl for the next program returned one of the IDLs in
\* `chain`, or (mayFail) null or an error (core.ts 226-241).
UpgradeCheckOn(chain, mayFail) ==
  /\ agentPc = "upgrade"
  /\ upgradeList # << >>
  /\ LET programId == Head(upgradeList) IN
       \/ \E idl \in chain :
            queue' = IF programId \in DOMAIN idls /\ idls[programId].hash # hashIdl(idl)
                     THEN addToQueue(queue, programId).queue
                     ELSE queue
       \/ mayFail /\ UNCHANGED queue
  /\ upgradeList' = Tail(upgradeList)
  /\ agentPc' = IF Tail(upgradeList) = << >> THEN AfterIteration(running) ELSE "upgrade"
  /\ UNCHANGED << programs, idls, docs, config, running, errors,
                  upgradeCheckCounter, pending, batchStart, tasks >>
  /\ resp' = NoResp
  /\ UNCHANGED << mx, held, disk, net >>

UpgradeCheck == UpgradeCheckOn(Idls, TRUE)

\* TypeError of getQueue().filter / getProgramIndex().filter when the file
\* read gave JSON that is no array.
MsgLoopError == "filter is not a function"

\* processQueue threw at getPendingItems, or checkUpgrades threw at
\* checkForUpgrades after the counter was reset: the catch of the loop body
\* records the error (core.ts 69-83).
LoopThrows(message) ==
  /\ MayFail
  /\ \/ /\ agentPc = "loop"
        /\ UNCHANGED upgradeCheckCounter
     \/ /\ agentPc = "batch"
        /\ batchStart >= Len(pending) \/ ~running
        /\ upgradeCheckCounter + 1 >= UPGRADE_CHECK_EVERY
        /\ upgradeCheckCounter' = 0
  /\ errors' = addError(errors, "agent-loop", message)
  /\ agentPc' = AfterIteration(running)
  /\ resp' = [NoResp EXCEPT !.op = "loopError", !.error = message]
  /\ UNCHANGED << store, config, running, pending, batchStart, tasks, upgradeList >>
  /\ UNCHANGED << mx, held, disk, net >>

\* The sleep timer fired (core.ts 68, 87).
Wake ==
  /\ agentPc = "sleep"
  /\ agentPc' = IF running THEN "loop" ELSE "idle"
  /\ UNCHANGED << store, config, running, errors, upgradeCheckCounter, pending,
                  batchStart, tasks, upgradeList >>
  /\ resp' = NoResp
  /\ UNCHANGED << mx, held, disk, net >>

\* The process dies and is started again: the files stay, a new Agent is built.
Crash ==
  /\ agentPc # "idle"
  /\ running' = FALSE
  /\ errors' = << >>
  /\ upgradeCheckCounter' = 0
  /\ agentPc' = "idle"
  /\ pending' = << >>
  /\ batchStart' = 0
  /\ tasks' = EmptyDir
  /\ upgradeList' = << >>
  /\ resp' = NoResp
  /\ UNCHANGED << store, config >>
  /\ UNCHANGED << mx, held, disk, net >>

\* ------------------------------------------------- HTTP routes (routes.ts)
\* String.prototype.trim
RECURSIVE Trim(_)
Trim(chars) ==
  IF chars # << >> /\ Head(chars) = " " THEN Trim(Tail(chars))
  ELSE IF chars # << >> /\ chars[Len(chars)] = " " THEN Trim(SubSeq(chars, 1, Len(chars) - 1))
  ELSE chars

\* isValidProgramId (program-info.ts 35-42): new PublicKey(programId) does
\* not throw; the public keys of the model are the ids in `keys`.
isValidProgramId_NonEmpty(chars, keys) == chars # << >>

isValidProgramId(chars, keys) == Len(chars) = 1 /\ chars[1] \in keys

\* POST /api/programs (routes.ts 98-121), valid programId.
PostProgram(id) ==
  /\ LET r == addToQueue(queue, id) IN
       /\ queue' = r.queue
       /\ resp' = [NoResp EXCEPT !.op = "postProgram", !.id = id,
                                 !.code = IF r.isNew THEN 202 ELSE 200,
                                 !.isNew = r.isNew,
                                 !.body = [type |-> "string", chars |-> << id >>]]
  /\ UNCHANGED << programs, idls, docs, config, agent >>
  /\ UNCHANGED << mx, held, disk, net >>

\* POST /api/programs/:id/idl (routes.ts 124-145), valid id and IDL.
UploadIdl(id, idl) ==
  /\ idls' = saveIdlCache(idls, id, idl)
  /\ queue' = addToQueue(queue, id).queue
  /\ resp' = [NoResp EXCEPT !.op = "uploadIdl", !.id = id, !.code = 202]
  /\ UNCHANGED << programs, docs, config, agent >>
  /\ UNCHANGED << mx, held, disk, net >>

\* DELETE /api/programs/:id (routes.ts 148-169), valid id.
DeleteProgram(id) ==
  /\ IF Has(programs, id)
     THEN /\ programs' = removeProgram(programs, id)
          /\ queue' = removeFromQueue(queue, id)
          /\ docs' = removeDocs(docs, id)
          /\ idls' = removeIdlCache(idls, id)
          /\ resp' = [NoResp EXCEPT !.op = "deleteProgram", !.id = id, !.code = 200]
     ELSE /\ resp' = [NoResp EXCEPT !.op = "deleteProgram", !.id = id, !.code = 404]
          /\ UNCHANGED store
  /\ UNCHANGED << config, agent >>
  /\ UNCHANGED << mx, held, disk, net >>

\* The check of the uploaded body (routes.ts 131-132):
\* !idl.instructions || !Array.isArray(idl.instructions) || !getIdlName(idl)
\* || getIdlName(idl) === 'unknown_program'.  An empty array is truthy.
IdlRejected(body) ==
  \/ body.instructionsKind = "missing"
  \/ body.instructionsKind # "array"
  \/ getIdlName(body) = ""
  \/ getIdlName(body) = "unknown_program"

\* POST /api/programs/:id/idl with any id and body (routes.ts 124-145).
UploadIdlRequest(chars, body) ==
  /\ IF ~isValidProgramId(chars, Progs) \/ IdlRejected(body)
     THEN /\ resp' = [NoResp EXCEPT !.op = "uploadIdl", !.code = 400, !.body = body]
          /\ UNCHANGED store
     ELSE /\ idls' = saveIdlCache(idls, chars[1], body)
          /\ queue' = addToQueue(queue, chars[1]).queue
          /\ resp' = [NoResp EXCEPT !.op = "uploadIdl", !.id = chars[1], !.code = 202,
                                    !.body = body]
          /\ UNCHANGED << programs, docs >>
  /\ UNCHANGED << config, agent, mx, held, disk, net >>

\* POST /api/programs with any body (routes.ts 98-121): the two 400 answers,
\* else the handler goes on with the trimmed id.
PostProgramRequest(body) ==
  \/ /\ body.type # "string" \/ body.chars = << >>
     /\ resp' = [NoResp EXCEPT !.op = "postProgram", !.code = 400, !.body = body]
     /\ UNCHANGED << store, config, agent, mx, held, disk, net >>
  \/ /\ body.type = "string" /\ body.chars # << >>
     /\ ~isValidProgramId(Trim(body.chars), Progs)
     /\ resp' = [NoResp EXCEPT !.op = "postProgram", !.code = 400, !.body = body]
     /\ UNCHANGED << store, config, agent, mx, held, disk, net >>
  \/ /\ body.type = "string" /\ body.chars # << >>
     /\ isValidProgramId(Trim(body.chars), Progs)
     /\ \E r \in {addToQueue(queue, Trim(body.chars)[1])} :
          /\ queue' = r.queue
          /\ resp' = [NoResp EXCEPT !.op = "postProgram", !.id = Trim(body.chars)[1],
                                    !.code = IF r.isNew THEN 202 ELSE 200,
                                    !.isNew = r.isNew, !.body = body]
     /\ UNCHANGED << programs, idls, docs, config, agent, mx, held, disk, net >>

\* ------------------------------------------------------- specification
Next ==
  \/ Start
  \/ Stop
  \/ ProcessQueue
  \/ StartBatch
  \/ \E p \in Progs : Begin(p)
  \/ \E p \in Progs : FetchInfoReturn(p)
  \/ \E p \in Progs : FetchIdlReturn(p)
  \/ \E p \in Progs : LlmReturn(p)
  \/ \E p \in Progs : WebhookReturn(p)
  \/ Join
  \/ EndQueue
  \/ UpgradeCheck
  \/ Wake
  \/ Crash
  \/ \E id \in Progs : PostProgram(id)
  \/ \E id \in Progs, idl \in Idls : UploadIdl(id, idl)
  \/ \E id \in Progs : DeleteProgram(id)

Spec == Init /\ [][Next]_vars

\* A data directory left by earlier runs in which the queue item of p1 has
\* used up its retries (Store.updateQueueItem sets any attempts value).
InitRetry ==
  /\ programs = << FailedRec("p1", MsgNotFound) >>
  /\ \E n \in {MAX_ATTEMPTS - 1, MAX_ATTEMPTS} :
       queue = << [programId |-> "p1", status |-> "pending", attempts |-> n,
                   lastError |-> MsgNotFound] >>
  /\ idls = EmptyDir
  /\ docs = EmptyDir
  /\ config \in Configs
  /\ running = FALSE
  /\ errors = << >>
  /\ upgradeCheckCounter = 0
  /\ agentPc = "idle"
  /\ pending = << >>
  /\ batchStart = 0
  /\ tasks = EmptyDir
  /\ upgradeList = << >>
  /\ resp = NoResp
  /\ mx = MxIdle
  /\ held = NotHeld
  /\ disk = DiskInit
  /\ net = NetIdle

SpecRetry == InitRetry /\ [][Next]_vars

\* Data directories a killed run can leave behind: up to two queue items,
\* pending, stuck in processing, or failed (with the failed ProgramMetadata).
LeftItems(id) ==
  { NewItem(id),
    [NewItem(id) EXCEPT !.status = "processing"],
    [NewItem(id) EXCEPT !.status = "failed", !.attempts = 1, !.lastError = MsgLlm] }

LeftQueues ==
  { << >> }
  \cup { << a >> : a \in LeftItems("p1") \cup LeftItems("p2") }
  \cup { << a, b >> : a \in LeftItems("p1"), b \in LeftItems("p2") }
  \cup { << b, a >> : a \in LeftItems("p1"), b \in LeftItems("p2") }

FailedProgramsOf(q) ==
  LET Failed(item) == item.status = "failed"
      f == SelectSeq(q, Failed)
  IN [i \in 1..Len(f) |-> FailedRec(f[i].programId, f[i].lastError)]

InitRecover ==
  /\ queue \in LeftQueues
  /\ programs = FailedProgramsOf(queue)
  /\ idls = EmptyDir
  /\ docs = EmptyDir
  /\ config \in [webhookUrl : BOOLEAN, agentConcurrency : {1, 2}]
  /\ running = FALSE
  /\ errors = << >>
  /\ upgradeCheckCounter = 0
  /\ agentPc = "idle"
  /\ pending = << >>
  /\ batchStart = 0
  /\ tasks = EmptyDir
  /\ upgradeList = << >>
  /\ resp = NoResp
  /\ mx = MxIdle
  /\ held = NotHeld
  /\ disk = DiskInit
  /\ net = NetIdle

\* start() on such a directory, up to the launch of the first batch.
NextRecover ==
  \/ Start
  \/ ProcessQueue
  \/ StartBatch

SpecRecover == InitRecover /\ [][NextRecover]_vars

\* The program of the seed list has been upgraded on chain: every fetchIdl of
\* an upgrade check answers OnChainIdl, which is not the bundled IDL.
OnChainIdl == IdlY

UpgradeCheckUpgraded == UpgradeCheckOn({OnChainIdl}, FALSE)

\* A fresh store and an agent that is kept running, without HTTP requests:
\* the seed is documented from its bundled IDL, then the upgrade checks run.
NextUpgrade ==
  \/ Start
  \/ ProcessQueue
  \/ StartBatch
  \/ \E p \in Progs : Begin(p)
  \/ \E p \in Progs : LlmReturn(p)
  \/ \E p \in Progs : WebhookReturn(p)
  \/ Join
  \/ EndQueue
  \/ UpgradeCheckUpgraded
  \/ Wake

SpecUpgrade == Init /\ [][NextUpgrade]_vars

\* Three programs wait in the queue, the first and the last with an uploaded
\* IDL, the second with or without one.
BatchProgs == {"p1", "p2", "p3"}

InitBatch ==
  /\ programs = << >>
  /\ queue = << NewItem("p1"), NewItem("p2"), NewItem("p3") >>
  /\ \E cached \in {{"p1", "p3"}, BatchProgs} :
       idls = [id \in cached |-> IdlCacheRec(id, IdlX)]
  /\ docs = EmptyDir
  /\ config \in [webhookUrl : BOOLEAN, agentConcurrency : 1..MaxConcurrency]
  /\ running = FALSE
  /\ errors = << >>
  /\ upgradeCheckCounter = 0
  /\ agentPc = "idle"
  /\ pending = << >>
  /\ batchStart = 0
  /\ tasks = EmptyDir
  /\ upgradeList = << >>
  /\ resp = NoResp
  /\ mx = MxIdle
  /\ held = NotHeld
  /\ disk = DiskInit
  /\ net = NetIdle

\* The agent alone (no HTTP request, no crash), and stop().
NextBatch ==
  \/ Start
  \/ Stop
  \/ ProcessQueue
  \/ StartBatch
  \/ \E p \in BatchProgs : Begin(p)
  \/ \E p \in BatchProgs : FetchInfoReturn(p)
  \/ \E p \in BatchProgs : FetchIdlReturn(p)
  \/ \E p \in BatchProgs : LlmReturn(p)
  \/ \E p \in BatchProgs : WebhookReturn(p)
  \/ Join
  \/ EndQueue
  \/ UpgradeCheck
  \/ Wake

SpecBatch == InitBatch /\ [][NextBatch]_vars

\* ------------------------------------------------ FileMutex (part_013)
\* What the mutex is asked to run: three of the Store's *Safe operations
\* (their fn is synchronous) and an asynchronous fn on either path, which
\* stays suspended for any time and then returns or throws.
MxOps == {"saveProgramSafe", "addToQueueSafe", "updateQueueItemSafe",
          "asyncOnPrograms", "asyncOnQueue"}

PathOf(op) ==
  IF op \in {"saveProgramSafe", "asyncOnPrograms"} THEN "programsFile" ELSE "queueFile"

IsStoreOp(op) == op \in {"saveProgramSafe", "addToQueueSafe", "updateQueueItemSafe"}

\* The n-th call works on its own programId; an update aims at the item of
\* the call before it.
CallId(n) == "p" \o ToString(n)

TargetId(op, n) == IF op = "updateQueueItemSafe" /\ n > 1 THEN CallId(n - 1) ELSE CallId(n)

\* The promise `tok` has been resolved (0 stands for Promise.resolve()).
Settled(m, tok) == tok = 0 \/ tok \in m.resolved

\* acquire, lines 188-195: `prev` is awaited, the lock map becomes `locks`;
\* the call's own promise `next` is named by the call's number.
AcquireStep(op, prev, locks) ==
  /\ Len(mx.calls) < MaxCalls
  /\ LET n == Len(mx.calls) + 1 IN
       mx' = [mx EXCEPT !.locks = locks,
                        !.calls = Append(@, [path |-> PathOf(op), op |-> op,
                                             id |-> TargetId(op, n), prev |-> prev,
                                             pc |-> "awaitPrev", result |-> "none"])]
  /\ UNCHANGED << store, config, agent, resp, held, disk, net >>

Acquire_NoChain(op) ==
  AcquireStep(op, 0, [mx.locks EXCEPT ![PathOf(op)] = Len(mx.calls) + 1])

Acquire_KeepsFirstLock(op) ==
  AcquireStep(op, mx.locks[PathOf(op)],
              IF mx.locks[PathOf(op)] = 0
              THEN [mx.locks EXCEPT ![PathOf(op)] = Len(mx.calls) + 1]
              ELSE mx.locks)

\* FileMutex.acquire up to `await prev` (part_013 186-195).
Acquire(op) ==
  AcquireStep(op, mx.locks[PathOf(op)],
              [mx.locks EXCEPT ![PathOf(op)] = Len(mx.calls) + 1])

\* `await prev` resumed: fn starts (part_013 195-198).  The fn of a *Safe
\* operation is synchronous and does its read-modify-write here.
Enter(c) ==
  /\ c \in 1..Len(mx.calls)
  /\ mx.calls[c].pc = "awaitPrev"
  /\ Settled(mx, mx.calls[c].prev)
  /\ mx' = [mx EXCEPT !.calls[c].pc = "fn"]
  /\ LET call == mx.calls[c] IN
       CASE call.op = "saveProgramSafe" ->
              /\ programs' = saveProgram(programs, FailedRec(call.id, MsgLlm))
              /\ UNCHANGED queue
         [] call.op = "addToQueueSafe" ->
              /\ queue' = addToQueue(queue, call.id).queue
              /\ UNCHANGED programs
         [] call.op = "updateQueueItemSafe" ->
              /\ queue' = updateQueueItem(queue, call.id, [status |-> "processing"])
              /\ UNCHANGED programs
         [] OTHER -> UNCHANGED << programs, queue >>
  /\ UNCHANGED << idls, docs, config, agent, resp, held, disk, net >>

\* fn returned (ok) or threw; `released` says whether releaseFn() runs.
FinishStep(c, ok, released) ==
  /\ c \in 1..Len(mx.calls)
  /\ mx.calls[c].pc = "fn"
  /\ IsStoreOp(mx.calls[c].op) => ok
  /\ mx' = [mx EXCEPT
              !.resolved = IF released THEN @ \cup {c} ELSE @,
              !.locks = IF released /\ @[mx.calls[c].path] = c
                        THEN [@ EXCEPT ![mx.calls[c].path] = 0] ELSE @,
              !.calls[c].pc = "done",
              !.calls[c].result = IF ok THEN "ok" ELSE "error"]
  /\ UNCHANGED << store, config, agent, resp, held, disk, net >>

Finish_NoReleaseOnThrow(c) == \E ok \in BOOLEAN : FinishStep(c, ok, ok)

\* fn settled: the finally block releases and cleans up (part_013 197-205).
Finish(c) == \E ok \in BOOLEAN : FinishStep(c, ok, TRUE)

NextMutex ==
  \/ \E op \in MxOps : Acquire(op)
  \/ \E c \in 1..MaxCalls : Enter(c)
  \/ \E c \in 1..MaxCalls : Finish(c)

\* Continuations are always run, and every fn settles at some time.
SpecMutex ==
  /\ Init /\ [][NextMutex]_vars
  /\ \A c \in 1..MaxCalls : WF_vars(Enter(c)) /\ WF_vars(Finish(c))

\* ------------------------------------------------ program ids (part_013)
\* A programId as the Store sees it: a string, here the sequence of its
\* characters.  SAFE_ID_RE = /^[1-9A-HJ-NP-Za-km-z]{32,44}$/
ID_MIN_LEN == 32
ID_MAX_LEN == 44

Base58 ==
  {"1", "2", "3", "4", "5", "6", "7", "8", "9",
   "A", "B", "C", "D", "E", "F", "G", "H", "J", "K", "L", "M", "N",
   "P", "Q", "R", "S", "T", "U", "V", "W", "X", "Y", "Z",
   "a", "b", "c", "d", "e", "f", "g", "h", "i", "j", "k",
   "m", "n", "o", "p", "q", "r", "s", "t", "u", "v", "w", "x", "y", "z"}

SAFE_ID_RE_AnyLength(id) == \A i \in 1..Len(id) : id[i] \in Base58

SAFE_ID_RE(id) ==
  /\ Len(id) >= ID_MIN_LEN /\ Len(id) <= ID_MAX_LEN
  /\ \A i \in 1..Len(id) : id[i] \in Base58

InvalidIdMsg == "Invalid program ID format"

\* sanitizeId: the error thrown, "" when the id passes.
sanitizeId(id) == IF SAFE_ID_RE(id) THEN "" ELSE InvalidIdMsg

\* n times the character ch.
Rep(ch, n) == [i \in 1..n |-> ch]

\* Ids handed to the Store: a valid one, and ids that are empty, too short,
\* too long, or of a valid length with a character outside base58.
ValidIds == {Rep("A", ID_MIN_LEN)}

InvalidIds ==
  { << >>,
    Rep("A", ID_MIN_LEN - 1),
    Rep("z", ID_MAX_LEN + 1),
    << ".", ".", "/", ".", ".", "/", "e", "t", "c", "/", "p", "a", "s", "s", "w", "d" >>,
    Rep("A", ID_MIN_LEN - 1) \o << "0" >>,
    Rep("A", ID_MIN_LEN - 1) \o << "O" >>,
    Rep("A", ID_MIN_LEN - 1) \o << "I" >>,
    Rep("A", ID_MIN_LEN - 1) \o << "l" >>,
    << "/" >> \o Rep("A", ID_MIN_LEN - 1),
    Rep("z", ID_MAX_LEN - 1) \o << "\n" >> }

\* The Store operations that take a programId.
StoreOps ==
  {"getProgram", "saveProgram", "saveProgramSafe", "removeProgram", "removeProgramSafe",
   "addToQueue", "addToQueueSafe", "updateQueueItem", "updateQueueItemSafe",
   "removeFromQueue", "removeFromQueueSafe",
   "getDocs", "saveDocs", "removeDocs", "removeIdlCache", "getIdlCache", "saveIdlCache"}

\* The effect of `op` once sanitizeId has let the id through.
StoreEffect(op, id) ==
  /\ programs' =
       CASE op \in {"saveProgram", "saveProgramSafe"} ->
              saveProgram(programs, DocumentedRec(id, IdlX, hashIdl(IdlX)))
         [] op \in {"removeProgram", "removeProgramSafe"} -> removeProgram(programs, id)
         [] OTHER -> programs
  /\ queue' =
       CASE op \in {"addToQueue", "addToQueueSafe"} -> addToQueue(queue, id).queue
         [] op \in {"updateQueueItem", "updateQueueItemSafe"} ->
              updateQueueItem(queue, id, [status |-> "processing"])
         [] op \in {"removeFromQueue", "removeFromQueueSafe"} -> removeFromQueue(queue, id)
         [] OTHER -> queue
  /\ docs' =
       CASE op = "saveDocs" ->
              saveDocs(docs, MakeDoc(IdlX, id, hashIdl(IdlX), Len(Passes(IdlX))))
         [] op = "removeDocs" -> removeDocs(docs, id)
         [] OTHER -> docs
  /\ idls' =
       CASE op = "saveIdlCache" -> saveIdlCache(idls, id, IdlX)
         [] op = "removeIdlCache" -> removeIdlCache(idls, id)
         [] OTHER -> idls

\* One Store call: every operation starts with sanitizeId (the *Safe ones
\* inside their fn, so the lock is taken and released around the throw).
StoreCall(op, id) ==
  /\ IF sanitizeId(id) # ""
     THEN /\ resp' = [NoResp EXCEPT !.op = op, !.id = id, !.error = sanitizeId(id)]
          /\ UNCHANGED store
     ELSE /\ resp' = [NoResp EXCEPT !.op = op, !.id = id]
          /\ StoreEffect(op, id)
  /\ UNCHANGED << config, agent, mx, held, disk, net >>

NextIds == \E op \in StoreOps, id \in ValidIds \cup InvalidIds : StoreCall(op, id)

SpecIds == Init /\ [][NextIds]_vars

\* ------------------------------------------------ the error ring (core.ts)
\* Errors recorded beyond the capacity of the ring.
MaxOverflow == 5

\* Changes the holders of getState() results make to the errors lists they
\* were given, over the whole run.
MaxEdits == 1

\* The n-th error of a run of failures: one program per error, as in
\* "keeps at most 50 errors and retains the most recent".
ErrorNo(n) ==
  [programId |-> CallId(n), message |-> IF n % 2 = 1 THEN MsgNotFound ELSE MsgNoIdl]

\* One addError call; resp.count numbers the errors recorded so far.  push()
\* changes the array in place, so a holder of the same array sees the entry;
\* slice(-50) gives the agent a new array and leaves the old one to the holder.
RecordError ==
  /\ resp.op \in {"none", "addError"}
  /\ resp.count < ERROR_RING_CAP + MaxOverflow
  /\ LET e == ErrorNo(resp.count + 1)
         pushed == Append(errors, e)
     IN /\ errors' = addError(errors, e.programId, e.message)
        /\ held' = IF held.taken /\ held.shared /\ Len(pushed) > ERROR_RING_CAP
                   THEN [held EXCEPT !.shared = FALSE, !.errors = pushed]
                   ELSE held
        /\ resp' = [NoResp EXCEPT !.op = "addError", !.id = e.programId,
                                  !.count = resp.count + 1]
  /\ UNCHANGED << store, config, running, upgradeCheckCounter, agentPc, pending,
                  batchStart, tasks, upgradeList, mx, disk, net >>

\* Agent.getState: { ...this.state } copies the fields of the state object;
\* the field `errors` of the copy refers to the agent's own array.
getState ==
  /\ held' = [taken |-> TRUE, shared |-> TRUE, errors |-> << >>,
              running |-> running, queueLength |-> Len(getPendingItems(queue)),
              edits |-> held.edits]
  /\ UNCHANGED << store, config, agent, resp, mx, disk, net >>

\* The errors list as the holder of the getState() result sees it.
HeldErrors(h, ring) == IF h.shared THEN ring ELSE h.errors

CallerEntry == [programId |-> "caller", message |-> "added by the caller"]

\* The holder changes the errors list of the object it was given: `edit` is
\* the list after the change (a push or a pop).
CallerEdit(edit) ==
  /\ held.taken
  /\ held.edits < MaxEdits
  /\ IF held.shared
     THEN /\ errors' = edit
          /\ held' = [held EXCEPT !.edits = @ + 1]
     ELSE /\ held' = [held EXCEPT !.errors = edit, !.edits = @ + 1]
          /\ UNCHANGED errors
  /\ UNCHANGED << store, config, running, upgradeCheckCounter, agentPc, pending,
                  batchStart, tasks, upgradeList, resp, mx, disk, net >>

CallerPush == CallerEdit(Append(HeldErrors(held, errors), CallerEntry))

CallerPop ==
  /\ HeldErrors(held, errors) # << >>
  /\ CallerEdit(SubSeq(HeldErrors(held, errors), 1, Len(HeldErrors(held, errors)) - 1))

\* The agent records errors; status requests read the state in between.
NextRing ==
  \/ RecordError
  \/ getState

SpecRing == Init /\ [][NextRing]_vars

\* The same, with a holder that changes the list it was given.
NextCopy ==
  \/ RecordError
  \/ getState
  \/ CallerPush
  \/ CallerPop

SpecCopy == Init /\ [][NextCopy]_vars

\* --------------------------------------- file operations (part_013 157-176)
\* Values of Date.now() at a recovery.
MaxEpoch == 2

\* The files of the scenarios and what the Store writes to them.
DataPaths == {"programs.json", "docs/p1.json"}

Written(path) ==
  IF path = "programs.json"
  THEN {Array(<< >>), Array(<< "a" >>), Array(<< "a", "b" >>)}
  ELSE {Object(<< "a" >>), Object(<< "a", "b" >>)}

\* Texts that are not JSON: an empty file, a cut-off object.
Garbage == { << >>, << "{", "a" >> }

FileFrame ==
  UNCHANGED << store, config, agent, resp, mx, held, net >>

\* safeWriteJson, line 174 begins: writeFileSync opens and truncates the
\* tmp file.
WriteOpen(path, data) ==
  /\ disk.wr.pc = "idle"
  /\ disk' = [disk EXCEPT !.files = Put(@, TmpOf(path), << >>),
                          !.wr = [pc |-> "writing", path |-> path, text |-> Stringify(data)],
                          !.op = NoOp]
  /\ FileFrame

\* writeFileSync puts the next piece of the text into the tmp file.
WriteChunk ==
  /\ disk.wr.pc = "writing"
  /\ LET tmp == TmpOf(disk.wr.path)
         k == Len(disk.files[tmp])
     IN /\ k < Len(disk.wr.text)
        /\ disk' = [disk EXCEPT !.files[tmp] = Append(@, disk.wr.text[k + 1]),
                                !.op = NoOp]
  /\ FileFrame

\* safeWriteJson, line 175: the tmp file is complete and renamed over path.
WriteRename ==
  /\ disk.wr.pc = "writing"
  /\ disk.files[TmpOf(disk.wr.path)] = disk.wr.text
  /\ disk' = [disk EXCEPT !.files = Rename(@, TmpOf(disk.wr.path), disk.wr.path),
                          !.wr = WrIdle,
                          !.op = [NoOp EXCEPT !.kind = "write", !.path = disk.wr.path,
                                              !.value = Parse(disk.wr.text)]]
  /\ FileFrame

\* The process is killed while it writes; the files stay as they are.
Kill ==
  /\ disk.wr.pc = "writing"
  /\ disk' = [disk EXCEPT !.wr = WrIdle, !.op = NoOp]
  /\ FileFrame

\* A read of path with the Store's fallback, at any instant.
ReadFile(path) ==
  /\ \E epoch \in 1..MaxEpoch :
       LET r == safeReadJson(disk.files, path, Fallback(path), epoch) IN
         disk' = [disk EXCEPT !.files = r.files,
                              !.op = [kind |-> "read", path |-> path, value |-> r.value,
                                      recovered |-> r.recovered]]
  /\ FileFrame

\* safeWriteJson as the process itself sees it: one synchronous call.
WriteFile(path, data) ==
  /\ disk.wr.pc = "idle"
  /\ disk' = [disk EXCEPT !.files = safeWriteJson(@, path, data),
                          !.op = [NoOp EXCEPT !.kind = "write", !.path = path,
                                              !.value = data]]
  /\ FileFrame

\* Something outside the Store leaves a file that is not JSON, as in
\* "recovers from corrupt programs.json".
CorruptFile(path, text) ==
  /\ disk.wr.pc = "idle"
  /\ disk' = [disk EXCEPT !.files = Put(@, path, text),
                          !.op = [NoOp EXCEPT !.kind = "corrupt", !.path = path]]
  /\ FileFrame

\* Writes seen system call by system call, kills, and reads at any instant.
NextWrite ==
  \/ \E path \in DataPaths : \E data \in Written(path) : WriteOpen(path, data)
  \/ WriteChunk
  \/ WriteRename
  \/ Kill
  \/ \E path \in DataPaths : ReadFile(path)

SpecWrite == Init /\ [][NextWrite]_vars

\* Reads and writes of the Store on files that get corrupted from outside.
NextCorrupt ==
  \/ \E path \in DataPaths : \E text \in Garbage : CorruptFile(path, text)
  \/ \E path \in DataPaths : ReadFile(path)
  \/ \E path \in DataPaths : \E data \in Written(path) : WriteFile(path, data)

SpecCorrupt == Init /\ [][NextCorrupt]_vars

\* ------------------------------------ SolanaClient.withRetry (part_015)
\* Largest maxRetries argument.
MaxRetryArg == 4

NetFrame ==
  UNCHANGED << store, config, agent, resp, mx, held, disk >>

\* withRetry(fn, maxRetries) up to the first await (part_015 12-16).
WithRetryCall(maxRetries) ==
  /\ net.rt.pc = "idle"
  /\ net' = [net EXCEPT !.rt =
               IF 0 < maxRetries
               THEN [RtIdle EXCEPT !.pc = "fn", !.maxRetries = maxRetries,
                                   !.invocations = 1]
               ELSE [RtIdle EXCEPT !.pc = "done", !.maxRetries = maxRetries,
                                   !.result = "thrown"]]
  /\ NetFrame

\* fn() resolved (ok) or rejected with an Error of the given message
\* (part_015 16-27).
FnSettles(ok, message) ==
  /\ net.rt.pc = "fn"
  /\ LET error == [message |-> message, no |-> net.rt.invocations] IN
       net' = [net EXCEPT !.rt =
                 IF ok THEN [@ EXCEPT !.pc = "done", !.result = "returned"]
                 ELSE IF RpcRetryable(message)
                 THEN [@ EXCEPT !.pc = "delay", !.lastError = error]
                 ELSE [@ EXCEPT !.pc = "done", !.lastError = error,
                                !.result = "thrown", !.thrown = error]]
  /\ NetFrame

\* The retry delay is over: continue (part_015 14, 24-30).
RetryDelayDone ==
  /\ net.rt.pc = "delay"
  /\ net' = [net EXCEPT !.rt =
               IF net.rt.attempt + 1 < net.rt.maxRetries
               THEN [@ EXCEPT !.pc = "fn", !.attempt = @ + 1, !.invocations = @ + 1]
               ELSE [@ EXCEPT !.pc = "done", !.attempt = @ + 1,
                              !.result = "thrown", !.thrown = net.rt.lastError]]
  /\ NetFrame

NextWithRetry ==
  \/ \E maxRetries \in 0..MaxRetryArg : WithRetryCall(maxRetries)
  \/ \E ok \in BOOLEAN, message \in ErrorMessages : FnSettles(ok, message)
  \/ RetryDelayDone

SpecWithRetry == Init /\ [][NextWithRetry]_vars

\* ---------------------------------------- AIClient.generate (part_015)
\* Clock ticks of a scenario with one generate() call, and with concurrent
\* calls.
MaxTicks == 60
PaceTicks == 12

\* this.lastCallTime = Date.now(); this.client.messages.create(...)
\* (part_015 56-57), as attempt number `attempt` of the call of caller c.
StartProvider(c, attempt) ==
  [net EXCEPT !.lastCallTime = net.now,
              !.gens[c].pc = "provider",
              !.gens[c].attempt = attempt,
              !.gens[c].calls = @ + 1]

\* generate() up to its first await (part_015 45-57).
Generate(c) ==
  /\ net.gens[c].pc = "idle"
  /\ LET elapsed == net.now - net.lastCallTime IN
       net' = IF elapsed < minIntervalMs
              THEN [net EXCEPT !.gens[c].pc = "pace",
                               !.gens[c].wake = net.now + (minIntervalMs - elapsed)]
              ELSE StartProvider(c, 0)
  /\ NetFrame

\* The pacing timer fired (part_015 50-57).
PaceWake(c) ==
  /\ net.gens[c].pc = "pace"
  /\ net.now >= net.gens[c].wake
  /\ net' = StartProvider(c, 0)
  /\ NetFrame

\* messages.create resolved (ok) or rejected (part_015 57-74).
ProviderSettles(c, ok, message) ==
  /\ net.gens[c].pc = "provider"
  /\ LET g == net.gens[c]
         error == [message |-> message, no |-> g.calls]
     IN net' = [net EXCEPT !.gens[c] =
                  IF ok THEN [g EXCEPT !.pc = "done", !.result = "returned"]
                  ELSE IF LlmRetryable(message)
                  THEN [g EXCEPT !.pc = "backoff", !.lastError = error,
                                 !.wake = net.now + Pow2(g.attempt) * LLM_BACKOFF_MS]
                  ELSE [g EXCEPT !.pc = "done", !.lastError = error,
                                 !.result = "thrown", !.thrown = error]]
  /\ NetFrame

\* The backoff timer fired: continue (part_015 54, 71-77).
BackoffWake(c) ==
  /\ net.gens[c].pc = "backoff"
  /\ net.now >= net.gens[c].wake
  /\ net' = IF net.gens[c].attempt + 1 < LLM_ATTEMPTS
            THEN StartProvider(c, net.gens[c].attempt + 1)
            ELSE [net EXCEPT !.gens[c].pc = "done",
                             !.gens[c].attempt = @ + 1,
                             !.gens[c].result = "thrown",
                             !.gens[c].thrown = net.gens[c].lastError]
  /\ NetFrame

\* Time passes; a timer that is due fires before the clock moves on.
Tick(ticks) ==
  /\ net.now + TickMs <= StartMs + ticks * TickMs
  /\ \A c \in Callers :
       net.gens[c].pc \in {"pace", "backoff"} => net.gens[c].wake > net.now
  /\ net' = [net EXCEPT !.now = @ + TickMs]
  /\ NetFrame

\* One generate() call on a fresh client: lastCallTime is 0, so the call is
\* never paced and the pacing timer is not part of it.
NextGenerate ==
  \/ Generate(1)
  \/ \E ok \in BOOLEAN, message \in ErrorMessages : ProviderSettles(1, ok, message)
  \/ BackoffWake(1)
  \/ Tick(MaxTicks)

SpecGenerate == Init /\ [][NextGenerate]_vars

\* Several batch items call generate() on the one AIClient of the agent.
NextPacing ==
  \/ \E c \in Callers : Generate(c)
  \/ \E c \in Callers : PaceWake(c)
  \/ \E c \in Callers : \E ok \in BOOLEAN, message \in ErrorMessages :
       ProviderSettles(c, ok, message)
  \/ \E c \in Callers : BackoffWake(c)
  \/ Tick(PaceTicks)

SpecPacing == Init /\ [][NextPacing]_vars

\* ------------------------------------------------ POST /api/programs
\* The programId values a client sends: none, a number, the empty string,
\* blanks, a string that is no public key, a public key, and a public key
\* with blanks around it.
Bodies ==
  { NoBody,
    [type |-> "number", chars |-> << >>],
    [type |-> "string", chars |-> << >>],
    [type |-> "string", chars |-> << " " >>],
    [type |-> "string", chars |-> << "not-valid!" >>],
    [type |-> "string", chars |-> << "p1", "p1" >>] }
  \cup { [type |-> "string", chars |-> << p >>] : p \in Progs }
  \cup { [type |-> "string", chars |-> << " ", p, " " >>] : p \in Progs }

NextPost ==
  \/ Start
  \/ ProcessQueue
  \/ StartBatch
  \/ \E p \in Progs : Begin(p)
  \/ \E p \in Progs : FetchInfoReturn(p)
  \/ \E p \in Progs : FetchIdlReturn(p)
  \/ \E p \in Progs : LlmReturn(p)
  \/ \E p \in Progs : WebhookReturn(p)
  \/ Join
  \/ EndQueue
  \/ UpgradeCheck
  \/ Wake
  \/ \E body \in Bodies : PostProgramRequest(body)

SpecPost == Init /\ [][NextPost]_vars

\* ------------------------------------------- POST /api/programs/:id/idl
\* The bodies a client uploads: no IDL at all ({ foo: 'bar' }), instructions
\* that are not an array, an IDL named by `name`, one named by
\* `metadata.name`, one with an empty instructions array, one without a name
\* and one named 'unknown_program'.
UploadBody(name, metadataName, kind, n, accounts) ==
  [name |-> name, metadataName |-> metadataName, instructionsKind |-> kind,
   instructions |-> n, accounts |-> accounts]

UploadBodies ==
  { UploadBody("", "", "missing", 0, 0),
    UploadBody("x", "", "string", 0, 0),
    UploadBody("x", "", "array", 1, 0),
    UploadBody("", "y", "array", 6, 1),
    UploadBody("x", "", "array", 0, 0),
    UploadBody("", "", "array", 1, 0),
    UploadBody("unknown_program", "", "array", 1, 0) }

UploadIds == { << p >> : p \in Progs } \cup { << "not-valid!" >> }

\* The HTTP handlers that write, with no agent running.
NextUpload ==
  \/ \E chars \in UploadIds, body \in UploadBodies : UploadIdlRequest(chars, body)
  \/ \E body \in Bodies : PostProgramRequest(body)
  \/ \E id \in Progs : DeleteProgram(id)

SpecUpload == Init /\ [][NextUpload]_vars

\* ------------------------------------------- DELETE /api/programs/:id
\* The store is filled by direct Store calls, as the tests do before they
\* send the DELETE, for two programs.
DelProgs == {"p1", "p2"}

SetupOps == {"saveProgram", "addToQueue", "updateQueueItem", "saveDocs", "saveIdlCache"}

StoreSetup(op, id) ==
  /\ StoreEffect(op, id)
  /\ resp' = [NoResp EXCEPT !.op = op, !.id = id]
  /\ UNCHANGED << config, agent, mx, held, disk, net >>

NextDelete ==
  \/ \E op \in SetupOps, id \in DelProgs : StoreSetup(op, id)
  \/ \E id \in DelProgs : DeleteProgram(id)

SpecDelete == Init /\ [][NextDelete]_vars

\* --------------------------------------------------- seedQueueIfEmpty
\* Seed lists: two bundled IDLs; and one whose second IDL has instructions
\* that are no array and whose third IDL is not bundled.
SeedEntry(id, idl, kind, bundled) ==
  [programId |-> id,
   idl |-> UploadBody(idl.name, "", kind, idl.instructions, idl.accounts),
   bundled |-> bundled]

SeedLists ==
  { << SeedEntry("p1", IdlX, "array", TRUE), SeedEntry("p2", IdlY, "array", TRUE) >>,
    << SeedEntry("p1", IdlX, "array", TRUE), SeedEntry("p2", IdlY, "string", TRUE),
       SeedEntry("p3", IdlY, "array", FALSE) >> }

\* seedQueueIfEmpty(store) with the seed list `seeds` (part_012 34-71).
SeedCall(seeds) ==
  /\ LET seed == seedQueue(seeds, queue, programs, idls) IN
       /\ queue' = seed.queue
       /\ idls' = seed.idls
       /\ resp' = [NoResp EXCEPT !.op = "seed", !.count = seed.seeded, !.body = seeds]
  /\ UNCHANGED << programs, docs, config, agent, mx, held, disk, net >>

NextSeed ==
  \/ \E op \in SetupOps, id \in DelProgs : StoreSetup(op, id)
  \/ \E id \in DelProgs : DeleteProgram(id)
  \/ \E seeds \in SeedLists : SeedCall(seeds)

SpecSeed == Init /\ [][NextSeed]_vars

\* ------------------------------------------------ errors in the main loop
\* The agent with stop() and POST /api/programs, and iterations that throw.
NextLoop ==
  \/ Start
  \/ Stop
  \/ ProcessQueue
  \/ StartBatch
  \/ \E p \in Progs : Begin(p)
  \/ \E p \in Progs : FetchInfoReturn(p)
  \/ \E p \in Progs : FetchIdlReturn(p)
  \/ \E p \in Progs : LlmReturn(p)
  \/ \E p \in Progs : WebhookReturn(p)
  \/ Join
  \/ EndQueue
  \/ UpgradeCheck
  \/ Wake
  \/ LoopThrows(MsgLoopError)
  \/ \E id \in Progs : PostProgram(id)

SpecLoop == Init /\ [][NextLoop]_vars

\* ------------------------------------------------ uploads beside the agent
\* The running agent (no stop, no crash, no DELETE) and IDL uploads.  The
\* seeded program always has a cached IDL, so no chain lookup is made.
NextReupload ==
  \/ Start
  \/ ProcessQueue
  \/ StartBatch
  \/ \E p \in Progs : Begin(p)
  \/ \E p \in Progs : LlmReturn(p)
  \/ \E p \in Progs : WebhookReturn(p)
  \/ Join
  \/ EndQueue
  \/ UpgradeCheck
  \/ Wake
  \/ \E id \in Progs, idl \in Idls : UploadIdl(id, idl)

SpecReupload == Init /\ [][NextReupload]_vars

\* --------------------------------------------- the agent that keeps running
\* One step of the agent: the loop of start() and the runs of its batch.
AgentStep ==
  \/ Start
  \/ ProcessQueue
  \/ StartBatch
  \/ \E p \in Progs : Begin(p)
  \/ \E p \in Progs : FetchInfoReturn(p)
  \/ \E p \in Progs : FetchIdlReturn(p)
  \/ \E p \in Progs : LlmReturn(p)
  \/ \E p \in Progs : WebhookReturn(p)
  \/ Join
  \/ EndQueue
  \/ UpgradeCheck
  \/ Wake

\* The agent is started and never stopped or killed; requests come at any
\* time.  Every call the agent waits for returns and every timer fires, so
\* the agent's next step is taken eventually.
NextLive ==
  \/ AgentStep
  \/ \E id \in Progs : PostProgram(id)
  \/ \E id \in Progs, idl \in Idls : UploadIdl(id, idl)
  \/ \E id \in Progs : DeleteProgram(id)

SpecLive == Init /\ [][NextLive]_vars /\ WF_vars(AgentStep)

\* The same with stop(): the loop ends after the batch in flight and may be
\* started again.
NextStoppable ==
  \/ NextLive
  \/ Stop

SpecStoppable == Init /\ [][NextStoppable]_vars

\* ------------------------------------------------------------- helpers
Item(id) == Find(queue, id)
Program(id) == Find(programs, id)
\* This step settles the task of p with the given outcome.
Settles(p, outcome) ==
  /\ p \in DOMAIN tasks /\ tasks[p].pc # "settled"
  /\ p \in DOMAIN tasks' /\ tasks'[p].pc = "settled" /\ tasks'[p].outcome = outcome

\* ---------------------------------------------------------------- claims

\* C1: every ProgramMetadata with status documented has a non-empty idlHash
\* that equals the idlHash of the Documentation and the hash of the IDLCache
\* stored for the same programId.
C1_DocumentedHashesAgree ==
  \A i \in 1..Len(programs) :
    programs[i].status = "documented" =>
      LET id == programs[i].programId IN
        /\ programs[i].idlHash # EmptyHash
        /\ id \in DOMAIN docs /\ docs[id].idlHash = programs[i].idlHash
        /\ id \in DOMAIN idls /\ idls[id].hash = programs[i].idlHash

\* C2: the queue holds at most one QueueItem per programId.
C2_QueueUnique ==
  \A i, j \in 1..Len(queue) : queue[i].programId = queue[j].programId => i = j

\* C2 witness: an addToQueue for an id already queued has run (POST answered
\* "not new") and the queue holds that id once.
C2_Witness ==
  /\ resp.op = "postProgram" /\ ~resp.isNew
  /\ Cardinality({i \in 1..Len(queue) : queue[i].programId = resp.id}) = 1

\* C3: when the agent removes a queue item at the end of a run without an
\* error (full generation or unchanged-IDL shortcut), the index holds a
\* ProgramMetadata for that programId with status documented.
C3_RemovedOnSuccessIsDocumented ==
  [][\A p \in Progs :
       ( /\ Settles(p, "documented") \/ Settles(p, "unchanged")
         /\ Has(queue, p) /\ ~Has(queue', p) )
       => (Has(programs', p) /\ Find(programs', p).status = "documented")]_vars

PermanentMsg == "Permanently failed after 10 attempts:"

\* C4: a picked queue item whose attempts is at least MAX_ATTEMPTS is not
\* processed: no chain or LLM call is made for it, and its run ends with the
\* item removed, the ProgramMetadata failed with the permanent-failure message
\* and an entry for the program in the error ring.
C4_ExhaustedItemNotProcessed ==
  \A p \in DOMAIN tasks :
    tasks[p].attempts >= MAX_ATTEMPTS =>
      /\ tasks[p].pc \in {"start", "settled"}
      /\ tasks[p].pass = 0
      /\ tasks[p].pc = "settled" =>
           /\ ~Has(queue, p)
           /\ Has(programs, p) /\ Program(p).status = "failed"
           /\ Program(p).errorMessage = PermanentMsg
           /\ \E i \in 1..Len(errors) : errors[i].programId = p

\* C5: whenever processProgram throws, the queue item is left in the queue
\* with status failed, attempts one higher and lastError set; a ProgramMetadata
\* failed with that message is upserted; one entry for the programId is
\* appended to the error ring.
C5_FailureLeavesFailedItem ==
  [][\A p \in Progs :
       Settles(p, "failed") =>
         /\ Has(queue, p) /\ Has(queue', p)
         /\ Find(queue', p).status = "failed"
         /\ Find(queue', p).attempts = Find(queue, p).attempts + 1
         /\ Find(queue', p).lastError # Undefined
         /\ Has(programs', p)
         /\ Find(programs', p).status = "failed"
         /\ Find(programs', p).errorMessage = Find(queue', p).lastError
         /\ errors' = Append(errors, [programId |-> p,
                                      message |-> Find(queue', p).lastError])]_vars

\* C6: addToQueue(id) on a failed queue item puts that same item back to
\* pending with attempts 0 and no lastError, and reports isNew = false.
C6_ReAddResetsFailed ==
  /\ [](\A id \in Progs :
          (Has(queue, id) /\ Item(id).status = "failed") =>
            LET r == addToQueue(queue, id) IN
              /\ ~r.isNew
              /\ r.item = NewItem(id)
              /\ Len(r.queue) = Len(queue)
              /\ r.queue[FindIndex(queue, id)] = r.item
              /\ \A i \in 1..Len(queue) : i # FindIndex(queue, id) => r.queue[i] = queue[i])
  /\ [][\A id \in Progs :
          ( /\ Has(queue, id) /\ Item(id).status = "failed"
            /\ resp'.op \in {"postProgram", "uploadIdl"} /\ resp'.id = id )
          => /\ Find(queue', id) = NewItem(id)
             /\ Len(queue') = Len(queue)
             /\ resp'.op = "postProgram" => (~resp'.isNew /\ resp'.code = 200)]_vars

\* C6 witness: a POST for a program whose run failed was answered "not new"
\* and its item is pending again with a fresh retry budget.
C6_Witness ==
  /\ resp.op = "postProgram" /\ ~resp.isNew
  /\ Has(programs, resp.id) /\ Program(resp.id).status = "failed"
  /\ Has(queue, resp.id) /\ Item(resp.id) = NewItem(resp.id)

\* The queue differs from `before` only in that processing items are pending.
OnlyRecovered(before, after) ==
  /\ Len(after) = Len(before)
  /\ \A i \in 1..Len(before) :
       /\ after[i].programId = before[i].programId
       /\ after[i].attempts = before[i].attempts
       /\ after[i].lastError = before[i].lastError
       /\ after[i].status = IF before[i].status = "processing" THEN "pending"
                            ELSE before[i].status

\* C7: start() with items left in processing puts every such item back to
\* pending before the first snapshot of processQueue and changes nothing else.
C7_CrashRecovery ==
  /\ [](agentPc = "loop" => \A i \in 1..Len(queue) : queue[i].status # "processing")
  /\ [][( /\ agentPc = "idle" /\ agentPc' = "loop"
          /\ \E i \in 1..Len(queue) : queue[i].status = "processing" )
        => /\ OnlyRecovered(queue, queue')
           /\ UNCHANGED << programs, idls, docs >>]_vars
  /\ [][(agentPc = "loop" /\ agentPc' = "batch")
        => /\ \A i \in 1..Len(queue) : queue[i].status # "processing"
           /\ pending' = getPendingItems(queue)]_vars

\* C7 witness: start() has just recovered a stuck item, which is pending,
\* next to a failed item that is still failed.
C7_Witness ==
  /\ agentPc = "loop" /\ resp.op = "start" /\ resp.count > 0
  /\ Len(queue) = 2
  /\ \E i, j \in 1..Len(queue) :
       /\ queue[i].status = "pending"
       /\ queue[j].status = "failed" /\ queue[j].attempts = 1

\* C8: when an IDLCache and a Documentation exist and the hash of the IDL to
\* document equals the cached hash, the run makes no LLM call, leaves the
\* Documentation unchanged and removes the queue item.
C8_UnchangedIdlSkips ==
  [][\A p \in Progs :
       ( /\ p \in DOMAIN tasks /\ tasks[p].pc \in {"start", "fetchIdl"}
         /\ p \in DOMAIN tasks' /\ tasks'[p].pc \in {"llm", "settled"}
         /\ tasks'[p].outcome # "failed"
         /\ p \in DOMAIN idls /\ p \in DOMAIN docs
         /\ idls'[p].hash = idls[p].hash )
       => /\ tasks'[p].pc = "settled" /\ tasks'[p].outcome = "unchanged"
          /\ tasks'[p].pass = 0
          /\ docs' = docs
          /\ ~Has(queue', p)]_vars

\* C8 witness: a run ended by the unchanged-IDL shortcut, with no LLM call.
C8_Witness ==
  \E p \in DOMAIN tasks :
    /\ tasks[p].pc = "settled" /\ tasks[p].outcome = "unchanged" /\ tasks[p].pass = 0
    /\ p \in DOMAIN docs /\ p \in DOMAIN idls /\ ~Has(queue, p)

\* C9: whenever a Documentation and an IDLCache exist for a programId that has
\* no queue item pending or processing, Documentation.idlHash = IDLCache.hash.
C9_DocsMatchCacheAtRest ==
  \A id \in (DOMAIN docs) \cap (DOMAIN idls) :
    ~(Has(queue, id) /\ Item(id).status \in {"pending", "processing"})
      => docs[id].idlHash = idls[id].hash

\* C10: a Documentation is written only after every LLM pass of the run has
\* succeeded (so every stored Documentation has all four sections); a run in
\* which a pass fails creates or overwrites no Documentation.
C10_NoPartialDocs ==
  /\ [](\A id \in DOMAIN docs : docs[id].sections = AllSections)
  /\ [][\A p \in Progs :
          (p \in DOMAIN docs' /\ (p \notin DOMAIN docs \/ docs'[p] # docs[p]))
          => /\ p \in DOMAIN tasks /\ tasks[p].pc = "llm"
             /\ tasks[p].pass = Len(Passes(tasks[p].idl))
             /\ p \in DOMAIN tasks' /\ tasks'[p].outcome # "failed"]_vars
  /\ [][\A p \in Progs : Settles(p, "failed") => docs' = docs]_vars

\* C10 witness: a run failed in a later LLM pass after earlier passes had
\* succeeded, and no Documentation exists for the program.
C10_Witness ==
  \E p \in DOMAIN tasks :
    /\ tasks[p].pc = "settled" /\ tasks[p].outcome = "failed" /\ tasks[p].pass >= 2
    /\ p \notin DOMAIN docs

\* C14: the sleep between iterations is cancelable: a stop() that arrives
\* while the agent sleeps ends the sleep itself, so start() returns without
\* the sleep timer having to fire.
C14_StopWakesSleep ==
  [][(agentPc = "sleep" /\ running /\ ~running') => agentPc' = "idle"]_vars

\* C11: an upgrade check that finds the on-chain IDL of a documented program
\* to differ from the cached one enqueues the program, and the run that
\* consumes that item without an error leaves a Documentation whose idlHash is
\* the hash of the on-chain IDL (a run of an already documented program is,
\* without HTTP requests, a run of an item the upgrade check enqueued).
C11_UpgradeRedocumented ==
  /\ [][\A p \in Progs :
          ( /\ agentPc = "upgrade" /\ upgradeList # << >> /\ Head(upgradeList) = p
            /\ p \in DOMAIN idls /\ idls[p].hash # hashIdl(OnChainIdl) )
          => Has(queue', p)]_vars
  /\ [][\A p \in Progs :
          (Settles(p, "documented") \/ Settles(p, "unchanged"))
          => ( (Has(programs, p) /\ Program(p).status = "documented"
                /\ tasks[p].pc # "webhook")
               => (p \in DOMAIN docs' /\ docs'[p].idlHash = hashIdl(OnChainIdl)) )]_vars

Processing == {i \in 1..Len(queue) : queue[i].status = "processing"}

\* C12: during processQueue at most agentConcurrency items are being
\* processed at the same time, and a batch starts only when every item of the
\* batch before it has settled.
C12_BoundedParallelism ==
  /\ [](/\ Cardinality(Processing) <= config.agentConcurrency
        /\ Cardinality({p \in DOMAIN tasks : tasks[p].pc # "settled"})
             <= config.agentConcurrency)
  /\ [][(agentPc = "batch" /\ agentPc' = "join")
        => /\ Processing = {}
           /\ \A p \in DOMAIN tasks : tasks[p].pc = "settled"
           /\ Cardinality(DOMAIN tasks') <= config.agentConcurrency]_vars

\* C12 witness: with agentConcurrency 2 the first batch is in flight, two
\* items processing at once and the third still pending.
C12_Witness ==
  /\ config.agentConcurrency = 2 /\ agentPc = "join" /\ batchStart = 0
  /\ Cardinality(Processing) = 2
  /\ Has(queue, "p3") /\ Item("p3").status = "pending"

\* The outcome of the run of p that settled as `outcome` is in the store.
NormalOutcome(p, outcome, q, progs) ==
  CASE outcome = "documented" ->
         ~Has(q, p) /\ Has(progs, p) /\ Find(progs, p).status = "documented"
    [] outcome = "failed" ->
         /\ Has(q, p) /\ Find(q, p).status = "failed"
         /\ Has(progs, p) /\ Find(progs, p).status = "failed"
    [] OTHER -> ~Has(q, p)

\* C13: after stop() no new batch starts and the snapshot items not yet
\* started stay pending, while the items in flight are never dropped and
\* settle with their normal outcome.
C13_StopBetweenBatches ==
  /\ [][(agentPc = "batch" /\ agentPc' = "join") => running]_vars
  /\ [][(agentPc = "batch" /\ ~running /\ agentPc' # "batch")
        => \A k \in (batchStart + 1)..Len(pending) :
             /\ Has(queue', pending[k].programId)
             /\ Find(queue', pending[k].programId).status = "pending"]_vars
  /\ [][\A p \in DOMAIN tasks :
          tasks[p].pc # "settled" =>
            /\ p \in DOMAIN tasks'
            /\ (~running /\ tasks'[p].pc = "settled")
                 => NormalOutcome(p, tasks'[p].outcome, queue', programs')]_vars

\* C13 witness: the agent was stopped while the first of three items was
\* processed alone; it has left the loop with that item documented and
\* removed and the two others still pending.
C13_Witness ==
  /\ ~running /\ agentPc = "idle" /\ upgradeCheckCounter = 1
  /\ config.agentConcurrency = 1
  /\ ~Has(queue, "p1") /\ Has(programs, "p1") /\ Program("p1").status = "documented"
  /\ Len(queue) = 2 /\ \A i \in 1..Len(queue) : queue[i].status = "pending"

\* What the store holds for program q.
Slot(q, que, progs, ds, is) ==
  << IF Has(que, q) THEN << Find(que, q) >> ELSE << >>,
     IF Has(progs, q) THEN << Find(progs, q) >> ELSE << >>,
     IF q \in DOMAIN ds THEN << ds[q] >> ELSE << >>,
     IF q \in DOMAIN is THEN << is[q] >> ELSE << >> >>

\* C15: a failing item changes nothing of the other items of its batch and
\* does not end processQueue or the main loop; once all batches of a snapshot
\* are done, every item of it is documented and removed, or failed with one
\* more attempt and still queued.
C15_BatchItemsIsolated ==
  /\ [][\A p \in BatchProgs :
          Settles(p, "failed") =>
            /\ agentPc' = agentPc /\ running' = running
            /\ pending' = pending /\ batchStart' = batchStart
            /\ \A q \in BatchProgs \ {p} :
                 /\ q \in DOMAIN tasks => tasks'[q] = tasks[q]
                 /\ Slot(q, queue', programs', docs', idls')
                      = Slot(q, queue, programs, docs, idls)]_vars
  /\ [][(agentPc # "idle" /\ agentPc' = "idle") => ~running']_vars
  /\ [](( /\ agentPc = "batch" /\ batchStart >= Len(pending)
           /\ \A p \in DOMAIN tasks : tasks[p].pc = "settled" )
        => \A k \in 1..Len(pending) :
             LET id == pending[k].programId IN
               \/ /\ ~Has(queue, id) /\ id \in DOMAIN docs
                  /\ Has(programs, id) /\ Program(id).status = "documented"
               \/ /\ Has(queue, id) /\ Item(id).status = "failed"
                  /\ Item(id).attempts = pending[k].attempts + 1
                  /\ Has(programs, id) /\ Program(id).status = "failed")

\* C15 witness: one batch of three, the first and third item documented and
\* removed, the second failed with attempts 1 and alone in the queue.
C15_Witness ==
  /\ config.agentConcurrency = 3 /\ agentPc = "batch" /\ batchStart >= 3
  /\ \A id \in {"p1", "p3"} :
       /\ ~Has(queue, id) /\ id \in DOMAIN docs
       /\ Has(programs, id) /\ Program(id).status = "documented"
  /\ Len(queue) = 1 /\ queue[1].programId = "p2"
  /\ queue[1].status = "failed" /\ queue[1].attempts = 1
  /\ Has(programs, "p2") /\ Program("p2").status = "failed"

Calls == 1..Len(mx.calls)

\* C16: for one path at most one fn is executing at any time, an
\* asynchronous fn that is suspended included, and a later acquire starts its
\* fn only after the fn of every earlier acquire on that path has finished.
C16_MutualExclusion ==
  /\ [](\A a, b \in Calls :
          (a # b /\ mx.calls[a].path = mx.calls[b].path)
          => ~(mx.calls[a].pc = "fn" /\ mx.calls[b].pc = "fn"))
  /\ [][\A b \in Calls :
          (mx.calls[b].pc = "awaitPrev" /\ mx'.calls[b].pc = "fn")
          => \A a \in Calls :
               mx.calls[a].path = mx.calls[b].path => mx.calls[a].pc # "fn"]_vars

\* C16 witness: an asynchronous fn is suspended on queue.json while a later
\* acquire on the same path waits and a fn on programs.json runs in parallel.
C16_Witness ==
  \E a, b, c \in Calls :
    /\ a < b
    /\ mx.calls[a].op = "asyncOnQueue" /\ mx.calls[a].pc = "fn"
    /\ mx.calls[b].path = "queueFile" /\ mx.calls[b].pc = "awaitPrev"
    /\ mx.calls[c].path = "programsFile" /\ mx.calls[c].pc = "fn"

\* C17: on one path the fn bodies run in the order of the acquire calls,
\* however long each fn takes and whether earlier fns return or throw.
C17_Fifo ==
  \A a, b \in Calls :
    (a < b /\ mx.calls[a].path = mx.calls[b].path /\ mx.calls[b].pc # "awaitPrev")
    => mx.calls[a].pc = "done"

\* C17 witness: of three acquires on one path the first threw, the second
\* returned and the third is running its fn.
C17_Witness ==
  \E a, b, c \in Calls :
    /\ a < b /\ b < c
    /\ mx.calls[a].path = mx.calls[b].path /\ mx.calls[b].path = mx.calls[c].path
    /\ mx.calls[a].result = "error" /\ mx.calls[b].result = "ok"
    /\ mx.calls[c].pc = "fn"

\* Where the c-th acquire call is, "none" before it is made.
CallPc(c) == IF c \in Calls THEN mx.calls[c].pc ELSE "none"

\* C18: when a fn throws, the error is the result of that call alone, the
\* lock is released (and dropped when nobody waits), and the waiters queued
\* behind it still run: none is blocked by a finished call, each finishes.
C18_FaultIsolation ==
  /\ [][\A c \in Calls :
          (mx.calls[c].pc = "fn" /\ mx'.calls[c].result = "error")
          => /\ c \in mx'.resolved
             /\ mx'.locks[mx.calls[c].path] # c
             /\ \A d \in Calls \ {c} : mx'.calls[d] = mx.calls[d]]_vars
  /\ [](\A b \in Calls :
          mx.calls[b].pc = "awaitPrev"
          => \/ Settled(mx, mx.calls[b].prev)
             \/ mx.calls[mx.calls[b].prev].pc # "done")
  /\ \A c \in 1..MaxCalls : (CallPc(c) = "awaitPrev") ~> (CallPc(c) = "done")

\* C18 witness: a call queued directly behind a call whose fn threw has run
\* and returned.
C18_Witness ==
  \E a, b \in Calls :
    /\ mx.calls[b].prev = a
    /\ mx.calls[a].result = "error" /\ mx.calls[b].result = "ok"

\* The programIds whose `op` fn has run.
Ran(op) == {mx.calls[c].id : c \in {d \in Calls : mx.calls[d].op = op
                                                  /\ mx.calls[d].pc # "awaitPrev"}}

\* C19: the saveProgramSafe calls with distinct programIds that have run left
\* one index entry each, and the addToQueueSafe calls one queue item each,
\* whatever other calls on the same files were interleaved.
C19_NoLostUpdates ==
  /\ Len(programs) = Cardinality(Ran("saveProgramSafe"))
  /\ \A id \in Ran("saveProgramSafe") :
       Cardinality({i \in 1..Len(programs) : programs[i].programId = id}) = 1
  /\ Len(queue) = Cardinality(Ran("addToQueueSafe"))
  /\ \A id \in Ran("addToQueueSafe") :
       Cardinality({i \in 1..Len(queue) : queue[i].programId = id}) = 1

\* C19 witness: all calls were made before any fn ran, at least two of them
\* saveProgramSafe, and the index now holds an entry for each.
C19_Witness ==
  /\ Len(mx.calls) = MaxCalls
  /\ \A c \in Calls : mx.calls[c].pc = "done" /\ mx.calls[c].prev = c - 1
  /\ Cardinality(Ran("saveProgramSafe")) >= 2
  /\ Len(programs) = Cardinality(Ran("saveProgramSafe"))

\* C20: a Store operation called with an id that is not a string of 32 to 44
\* base58 characters fails with 'Invalid program ID format' and leaves the
\* program index, the queue, the IDL cache and the docs as they were.
C20_InvalidIdRejected ==
  [][( /\ resp'.op \in StoreOps
       /\ ~( /\ Len(resp'.id) \in 32..44
             /\ \A i \in 1..Len(resp'.id) : resp'.id[i] \in Base58 ) )
     => /\ resp'.error = "Invalid program ID format"
        /\ UNCHANGED << programs, queue, idls, docs >>]_vars

\* C20 witness: saveDocs was refused for an id of 32 characters, one of them
\* not base58, while the store holds programs, queue items, docs and IDLs.
C20_Witness ==
  /\ resp.op = "saveDocs" /\ resp.error = "Invalid program ID format"
  /\ Len(resp.id) = 32
  /\ Len(programs) > 0 /\ Len(queue) > 0
  /\ DOMAIN docs # {} /\ DOMAIN idls # {}

\* C21: after any sequence of recorded agent errors the error ring holds at
\* most 50 entries, and once 50 or more were recorded it holds exactly the 50
\* most recent ones in recording order.
C21_ErrorRingCap ==
  LET n == resp.count
      all == [k \in 1..n |-> ErrorNo(k)]
  IN /\ Len(errors) <= 50
     /\ errors = SubSeq(all, IF n > 50 THEN n - 49 ELSE 1, n)

\* C21 witness: 53 or more errors were recorded and the ring holds 50, the
\* oldest of them the error recorded 49 calls before the last.
C21_Witness ==
  /\ resp.op = "addError" /\ resp.count >= 53
  /\ Len(errors) = 50
  /\ errors[1].programId = CallId(resp.count - 49)
  /\ errors[50] = ErrorNo(resp.count)

\* C22: getState returns a deep copy: no change its caller makes to the
\* errors list of the returned AgentState shows in the agent's own state (nor,
\* therefore, in a later getState), and an error the agent records later does
\* not appear in a state returned earlier.
C22_GetStateDeepCopy ==
  /\ [][(held.taken /\ held'.edits # held.edits) => errors' = errors]_vars
  /\ [][(held.taken /\ held'.taken /\ resp'.count # resp.count)
        => HeldErrors(held', errors') = HeldErrors(held, errors)]_vars

\* C23: a webhook POST that is answered with a non-2xx status or fails in
\* transport changes nothing of the outcome: the run ends with the
\* Documentation persisted, the ProgramMetadata documented and the queue item
\* removed, and no attempts counter and no error-ring entry changes.
C23_WebhookFailureHarmless ==
  [][\A p \in BatchProgs :
       ( /\ p \in DOMAIN tasks /\ tasks[p].pc = "webhook"
         /\ resp'.op = "webhook" /\ resp'.id = p /\ resp'.code \notin 200..299 )
       => /\ Settles(p, "documented")
          /\ p \in DOMAIN docs' /\ docs' = docs
          /\ Has(programs', p) /\ Find(programs', p).status = "documented"
          /\ programs' = programs
          /\ ~Has(queue', p)
          /\ \A q \in BatchProgs \ {p} :
               Has(queue, q) => (Has(queue', q) /\ Find(queue', q) = Find(queue, q))
          /\ errors' = errors]_vars

\* C23 witness: the sink answered 500 for a program that is documented, has
\* its Documentation and is out of the queue, while the error ring still
\* holds only the one error of another program's failed run.
C23_Witness ==
  /\ resp.op = "webhook" /\ resp.code = 500
  /\ resp.id \in DOMAIN docs /\ ~Has(queue, resp.id)
  /\ Has(programs, resp.id) /\ Program(resp.id).status = "documented"
  /\ Len(errors) = 1 /\ errors[1].programId # resp.id

\* C24: with a webhookUrl exactly one POST is sent by each run that generates
\* and persists a Documentation, at the moment it is persisted; a failed run,
\* a run that takes the unchanged-IDL shortcut and any run without a
\* webhookUrl send none.
C24_OnePostPerDocumentation ==
  /\ [](\A p \in DOMAIN tasks :
          tasks[p].posts =
            IF /\ config.webhookUrl
               /\ \/ tasks[p].pc = "webhook"
                  \/ tasks[p].pc = "settled" /\ tasks[p].outcome = "documented"
            THEN 1 ELSE 0)
  /\ [][\A p \in (DOMAIN tasks) \cap (DOMAIN tasks') :
          tasks'[p].posts # tasks[p].posts
          => /\ tasks'[p].posts = tasks[p].posts + 1
             /\ p \in DOMAIN docs' /\ docs'[p].idlHash = tasks[p].hash
             /\ Has(programs', p) /\ Find(programs', p).status = "documented"]_vars

\* C24 witness: a batch of three with a webhookUrl: two programs documented
\* with one POST each, the third failed without a POST.
C24_Witness ==
  /\ config.webhookUrl /\ DOMAIN tasks = BatchProgs
  /\ \A p \in {"p1", "p3"} :
       tasks[p].pc = "settled" /\ tasks[p].outcome = "documented" /\ tasks[p].posts = 1
  /\ tasks["p2"].pc = "settled" /\ tasks["p2"].outcome = "failed" /\ tasks["p2"].posts = 0

\* C25: a write goes to path.tmp, which is then renamed over path: whenever
\* the content of path changes it becomes the complete new text, taken from a
\* complete path.tmp; path holds a complete JSON text at every instant, also
\* after a kill in the middle of a write, and no read finds a partial file.
C25_AtomicWrites ==
  /\ [](\A path \in DataPaths :
          path \in DOMAIN disk.files => Parse(disk.files[path]) # ParseError)
  /\ [](disk.op.kind = "read" => (~disk.op.recovered /\ disk.op.value # ParseError))
  /\ [][\A path \in DataPaths :
          path \in DOMAIN disk.files =>
            /\ path \in DOMAIN disk'.files
            /\ disk'.files[path] # disk.files[path]
               => /\ disk.wr.pc = "writing" /\ disk.wr.path = path
                  /\ (path \o ".tmp") \in DOMAIN disk.files
                  /\ disk.files[path \o ".tmp"] = disk.wr.text
                  /\ disk'.files[path] = disk.wr.text
                  /\ (path \o ".tmp") \notin DOMAIN disk'.files]_vars

\* C25 witness: the process was killed in the middle of a write of
\* programs.json: a partial programs.json.tmp is left, programs.json holds the
\* complete list written before, and a read has just returned that list.
C25_Witness ==
  /\ disk.wr.pc = "idle"
  /\ "programs.json.tmp" \in DOMAIN disk.files
  /\ disk.files["programs.json.tmp"] = << "[", "a", "," >>
  /\ disk.files["programs.json"] = << "[", "a", "]" >>
  /\ disk.op.kind = "read" /\ disk.op.path = "programs.json"
  /\ disk.op.value = Array(<< "a" >>)

\* C26: a read that finds a file that is not JSON moves it to
\* path.corrupt.<epoch> and returns the fallback ([] for programs.json and
\* queue.json, null for a docs or IDL file); afterwards the path reads and
\* writes as on a fresh store: a read returns the fallback while the file is
\* absent, a write stores its value and a read returns the value stored.
C26_CorruptionRecovery ==
  /\ [][\A path \in DataPaths :
          ( /\ disk'.op.kind = "read" /\ disk'.op.path = path
            /\ path \in DOMAIN disk.files /\ Parse(disk.files[path]) = ParseError )
          => /\ disk'.op.value = (IF path = "programs.json" THEN Array(<< >>) ELSE Null)
             /\ path \notin DOMAIN disk'.files
             /\ \E t \in 1..MaxEpoch :
                  /\ (path \o ".corrupt." \o ToString(t)) \in DOMAIN disk'.files
                  /\ disk'.files[path \o ".corrupt." \o ToString(t)] = disk.files[path]
             /\ \A other \in DataPaths \ {path} :
                  /\ (other \in DOMAIN disk'.files) = (other \in DOMAIN disk.files)
                  /\ other \in DOMAIN disk.files => disk'.files[other] = disk.files[other]]_vars
  /\ [](disk.op.kind = "read" =>
          disk.op.value = IF disk.op.path \in DOMAIN disk.files
                          THEN Parse(disk.files[disk.op.path])
                          ELSE IF disk.op.path = "programs.json" THEN Array(<< >>) ELSE Null)
  /\ [](disk.op.kind = "read" => disk.op.value # ParseError)
  /\ [](disk.op.kind = "write" =>
          /\ disk.op.path \in DOMAIN disk.files
          /\ Parse(disk.files[disk.op.path]) = disk.op.value)

\* C26 witness: a corrupt docs file and a corrupt programs.json were both
\* moved aside, programs.json was written again and the read that followed
\* returned the list written.
C26_Witness ==
  /\ \E t \in 1..MaxEpoch : ("docs/p1.json.corrupt." \o ToString(t)) \in DOMAIN disk.files
  /\ \E t \in 1..MaxEpoch :
       /\ ("programs.json.corrupt." \o ToString(t)) \in DOMAIN disk.files
       /\ disk.files["programs.json.corrupt." \o ToString(t)] = << "{", "a" >>
  /\ "docs/p1.json" \notin DOMAIN disk.files
  /\ disk.op.kind = "read" /\ disk.op.path = "programs.json" /\ ~disk.op.recovered
  /\ disk.op.value = Array(<< "a", "b" >>)

\* C27: withRetry invokes fn again only after an error whose message contains
\* 429, 502 or 503; any other error is rethrown by the invocation that threw
\* it; fn is invoked at most maxRetries times; when every invocation failed
\* with a retryable error, the error of the last invocation is thrown.
C27_WithRetry ==
  /\ [](net.rt.invocations <= net.rt.maxRetries)
  /\ [][net'.rt.invocations = net.rt.invocations + 1 /\ net.rt.invocations >= 1
        => /\ net.rt.lastError.no = net.rt.invocations
           /\ \/ Includes(net.rt.lastError.message, << "4", "2", "9" >>)
              \/ Includes(net.rt.lastError.message, << "5", "0", "2" >>)
              \/ Includes(net.rt.lastError.message, << "5", "0", "3" >>)]_vars
  /\ [][( /\ net.rt.pc = "fn" /\ net'.rt.lastError # net.rt.lastError
          /\ ~Includes(net'.rt.lastError.message, << "4", "2", "9" >>)
          /\ ~Includes(net'.rt.lastError.message, << "5", "0", "2" >>)
          /\ ~Includes(net'.rt.lastError.message, << "5", "0", "3" >>) )
        => /\ net'.rt.pc = "done" /\ net'.rt.result = "thrown"
           /\ net'.rt.thrown = net'.rt.lastError
           /\ net'.rt.thrown.no = net.rt.invocations]_vars
  /\ [](( /\ net.rt.pc = "done" /\ net.rt.result = "thrown" /\ net.rt.invocations >= 1
          /\ \/ Includes(net.rt.thrown.message, << "4", "2", "9" >>)
             \/ Includes(net.rt.thrown.message, << "5", "0", "2" >>)
             \/ Includes(net.rt.thrown.message, << "5", "0", "3" >>) )
        => /\ net.rt.invocations = net.rt.maxRetries
           /\ net.rt.thrown.no = net.rt.invocations)

\* C27 witness: withRetry(fn, 3) invoked fn three times, every time with a
\* retryable error, and threw the error of the third invocation, a 502.
C27_Witness ==
  /\ net.rt.pc = "done" /\ net.rt.result = "thrown" /\ net.rt.maxRetries = 3
  /\ net.rt.invocations = 3 /\ net.rt.thrown.no = 3
  /\ Includes(net.rt.thrown.message, << "5", "0", "2" >>)

\* C28: generate calls the provider at most 3 times; a further attempt is
\* made only after an error whose message contains 429, 500 or 529; any other
\* error is rethrown at once as the same error object; after three retryable
\* failures the error of the third attempt is thrown.
C28_GenerateRetry ==
  /\ [](\A c \in Callers : net.gens[c].calls <= 3)
  /\ [][\A c \in Callers :
          (net'.gens[c].calls = net.gens[c].calls + 1 /\ net.gens[c].calls >= 1)
          => /\ net.gens[c].lastError.no = net.gens[c].calls
             /\ \/ Includes(net.gens[c].lastError.message, << "4", "2", "9" >>)
                \/ Includes(net.gens[c].lastError.message, << "5", "0", "0" >>)
                \/ Includes(net.gens[c].lastError.message, << "5", "2", "9" >>)]_vars
  /\ [][\A c \in Callers :
          ( /\ net.gens[c].pc = "provider"
            /\ net'.gens[c].lastError # net.gens[c].lastError
            /\ ~Includes(net'.gens[c].lastError.message, << "4", "2", "9" >>)
            /\ ~Includes(net'.gens[c].lastError.message, << "5", "0", "0" >>)
            /\ ~Includes(net'.gens[c].lastError.message, << "5", "2", "9" >>) )
          => /\ net'.gens[c].pc = "done" /\ net'.gens[c].result = "thrown"
             /\ net'.gens[c].thrown = net'.gens[c].lastError
             /\ net'.gens[c].thrown.no = net.gens[c].calls
             /\ net'.now = net.now]_vars
  /\ [](\A c \in Callers :
          ( /\ net.gens[c].pc = "done" /\ net.gens[c].result = "thrown"
            /\ \/ Includes(net.gens[c].thrown.message, << "4", "2", "9" >>)
               \/ Includes(net.gens[c].thrown.message, << "5", "0", "0" >>)
               \/ Includes(net.gens[c].thrown.message, << "5", "2", "9" >>) )
          => net.gens[c].calls = 3 /\ net.gens[c].thrown.no = 3)

\* C28 witness: a generate call made three provider calls, each failed with
\* a retryable error, and after the backoffs of 2, 4 and 8 seconds it threw
\* the error of the third call, a 529.
C28_Witness ==
  /\ net.gens[1].pc = "done" /\ net.gens[1].result = "thrown"
  /\ net.gens[1].calls = 3 /\ net.gens[1].thrown.no = 3
  /\ Includes(net.gens[1].thrown.message, << "5", "2", "9" >>)
  /\ net.now >= 1000 + 14000

\* C29: for one LLM client any two provider calls start at least 500 ms
\* apart, also when several batch items call generate at the same time: a
\* provider call starts no sooner than 500 ms after the one before it.
C29_PacingConcurrent ==
  [][\A c \in Callers :
       net'.gens[c].calls = net.gens[c].calls + 1
       => (net.lastCallTime = 0 \/ net'.now - net.lastCallTime >= 500)]_vars

\* C30: POST /api/programs answers 400 and leaves the queue as it was when
\* programId is missing, not a string or not a public key; for a public key
\* (blanks around it ignored) it answers 202 and appends a fresh pending item
\* when the id is not queued, 200 and resets the item to pending with zero
\* attempts when it is queued as failed, and 200 with the queue unchanged
\* when it is queued as pending or processing. Programs, IDL cache and
\* documentation are never touched.
C30_PostProgramStatusCodes ==
  [][resp'.op = "postProgram" /\ resp' # resp =>
       /\ UNCHANGED << programs, idls, docs >>
       /\ IF \E p \in Progs : resp'.body.type = "string"
                              /\ resp'.body.chars \in {<< p >>, << " ", p, " " >>}
          THEN LET id == CHOOSE p \in Progs :
                           resp'.body.chars \in {<< p >>, << " ", p, " " >>} IN
               /\ resp'.id = id
               /\ ~Has(queue, id)
                    => resp'.code = 202 /\ queue' = Append(queue, NewItem(id))
               /\ Has(queue, id) /\ Find(queue, id).status = "failed"
                    => /\ resp'.code = 200
                       /\ Len(queue') = Len(queue)
                       /\ \A i \in 1..Len(queue) :
                            queue'[i] = IF queue[i].programId = id
                                        THEN [queue[i] EXCEPT !.status = "pending",
                                                              !.attempts = 0,
                                                              !.lastError = Undefined]
                                        ELSE queue[i]
               /\ Has(queue, id) /\ Find(queue, id).status \in {"pending", "processing"}
                    => resp'.code = 200 /\ queue' = queue
          ELSE resp'.code = 400 /\ queue' = queue]_vars

\* A failed item was posted again with blanks around its id and is pending.
C30_Witness ==
  /\ resp.op = "postProgram" /\ resp.code = 200
  /\ resp.body.chars = << " ", "p1", " " >>
  /\ Has(queue, "p1") /\ Find(queue, "p1").status = "pending"
  /\ Find(queue, "p1").attempts = 0
  /\ Has(programs, "p1") /\ Find(programs, "p1").status = "failed"

\* C31: POST /api/programs/:id/idl accepts a body only if it has a non-empty
\* instructions array and a name other than 'unknown_program'; every other
\* body, also one with an empty instructions array, is answered 400 and
\* changes neither the IDL cache nor the queue; an accepted body is saved to
\* the IDL cache and the program is enqueued with answer 202.
C31_UploadValidation ==
  [][resp'.op = "uploadIdl" /\ resp' # resp =>
       LET body == resp'.body
           acceptable == /\ body.instructionsKind = "array"
                         /\ body.instructions > 0
                         /\ getIdlName(body) # "unknown_program"
       IN IF acceptable /\ resp'.id \in Progs
          THEN /\ resp'.code = 202
               /\ resp'.id \in DOMAIN idls' /\ idls'[resp'.id].idl = body
               /\ Has(queue', resp'.id)
          ELSE /\ resp'.code = 400
               /\ idls' = idls /\ queue' = queue]_vars

C33_SeedOnlyWhenEmpty ==
  [][resp'.op = "seed" /\ resp' # resp =>
       LET seeds == resp'.body
           valid == { k \in 1..Len(seeds) :
                        seeds[k].bundled /\ seeds[k].idl.instructionsKind = "array" }
       IN IF Len(queue) = 0 /\ Len(programs) = 0
          THEN /\ resp'.count = Cardinality(valid)
               /\ Len(queue') = Cardinality(valid)
               /\ \A k \in valid :
                    /\ seeds[k].programId \in DOMAIN idls'
                    /\ idls'[seeds[k].programId].idl = seeds[k].idl
                    /\ Cardinality({ i \in 1..Len(queue') :
                                       queue'[i] = NewItem(seeds[k].programId) }) = 1
               /\ \A id \in DOMAIN idls' :
                    \/ id \in DOMAIN idls /\ idls'[id] = idls[id]
                    \/ \E k \in valid : seeds[k].programId = id
               /\ UNCHANGED << programs, docs >>
          ELSE /\ resp'.count = 0
               /\ UNCHANGED << programs, queue, docs, idls >>]_vars

\* The three-entry list was seeded into an empty store: one program counted.
C33_Witness ==
  /\ resp.op = "seed" /\ resp.count = 1 /\ Len(resp.body) = 3
  /\ queue = << NewItem("p1") >>
  /\ DOMAIN idls = {"p1"}

\* C34: the upgrade check runs exactly on every 12th loop iteration: the
\* counter goes up by one when processQueue has returned and by nothing
\* else, the iteration that takes it to 12 sets it to 0 and runs the check,
\* no other iteration runs it, and the counter is at most 11 when an
\* iteration begins.
C34_UpgradeEveryTwelfth ==
  [][/\ agentPc' = "loop" => upgradeCheckCounter' <= 11
     /\ IF agentPc = "batch" /\ agentPc' \notin {"batch", "join"}
        THEN IF upgradeCheckCounter = 11
             THEN /\ upgradeCheckCounter' = 0
                  /\ upgradeList' = checkForUpgrades(programs)
                  /\ upgradeList' # << >> => agentPc' = "upgrade"
             ELSE /\ upgradeCheckCounter' = upgradeCheckCounter + 1
                  /\ upgradeList' = << >> /\ agentPc' # "upgrade"
        ELSE /\ upgradeCheckCounter' = upgradeCheckCounter
             /\ agentPc' = "upgrade" => agentPc = "upgrade"]_vars

\* The twelfth iteration has reset the counter and the check is at work on
\* the documented programs.
C34_Witness ==
  /\ agentPc = "upgrade" /\ upgradeCheckCounter = 0
  /\ upgradeList # << >>

\* C35: an error thrown inside one iteration of the main loop, by
\* processQueue or by the upgrade check, is caught in that iteration and
\* recorded as one error-ring entry with programId 'agent-loop'; the store
\* and `running` are untouched, and the loop goes on to its sleep, from
\* which only the next iteration follows, as long as running is true.
C35_LoopErrorCaught ==
  [][/\ resp'.op = "loopError" /\ resp' # resp =>
          /\ errors' = Append(errors, [programId |-> "agent-loop",
                                       message |-> resp'.error])
          /\ UNCHANGED << programs, queue, idls, docs, running >>
          /\ running => agentPc' = "sleep"
     /\ agentPc = "sleep" /\ agentPc' # "sleep" /\ running
          => agentPc' = "loop" /\ running']_vars

\* After an iteration that threw, the next iteration is processing the queue.
C35_Witness ==
  /\ errors # << >> /\ errors[Len(errors)].programId = "agent-loop"
  /\ running /\ agentPc = "join"

\* C36: a failed queue item is never picked up by the agent on its own: its
\* record changes only when addToQueue (a POST, an upload or the upgrade
\* check) puts it back to pending with attempts 0; so every queue item has
\* attempts 0 or 1 and none reaches MAX_ATTEMPTS.
C36_AttemptsZeroOrOne ==
  /\ [](\A i \in 1..Len(queue) :
          queue[i].attempts \in {0, 1} /\ queue[i].attempts < MAX_ATTEMPTS)
  /\ [][\A id \in Progs :
          ( /\ Has(queue, id) /\ Find(queue, id).status = "failed"
            /\ Has(queue', id) /\ Find(queue', id) # Find(queue, id) )
          => /\ Find(queue', id) = NewItem(id)
             /\ resp'.op \in {"postProgram", "uploadIdl"} \/ agentPc = "upgrade"]_vars

\* A failed item with one attempt stays in the queue while the running agent
\* goes through a later iteration with nothing to process.
C36_Witness ==
  /\ Has(queue, "p1") /\ Find(queue, "p1").status = "failed"
  /\ Find(queue, "p1").attempts = 1
  /\ running /\ agentPc = "batch" /\ pending = << >>

\* C37: an uploaded IDL is eventually documented.  In finite-run form: the
\* upload leaves its IDL in the cache and an item in the queue, and the
\* documentation can only come from the agent's run on that item; so when a
\* run ends without failure and the item is off the queue, a Documentation
\* with the hash of the cached (uploaded) IDL is persisted, also when the
\* program was documented before with another IDL and when the upload came
\* during the run.
C37_UploadEventuallyDocumented ==
  [][\A p \in Progs :
       ( /\ Settles(p, "documented") \/ Settles(p, "unchanged")
         /\ ~Has(queue', p)
         /\ p \in DOMAIN idls' )
       => (p \in DOMAIN docs' /\ docs'[p].idlHash = idls'[p].hash)]_vars

\* C38: a deletion is not undone by the agent.  A run whose queue item is
\* gone while it is still at work is a run whose program was deleted under
\* it and not submitted again; when such a run finishes, no ProgramMetadata,
\* Documentation or IDLCache exists for the id.
C38_DeletionNotUndone ==
  [][\A p \in Progs :
       ( /\ p \in DOMAIN tasks /\ tasks[p].pc \notin {"start", "settled"}
         /\ ~Has(queue, p)
         /\ p \in DOMAIN tasks' /\ tasks'[p].pc = "settled"
         /\ ~Has(queue', p) )
       => /\ ~Has(programs', p)
          /\ p \notin DOMAIN docs'
          /\ p \notin DOMAIN idls']_vars

\* C39: status processing does not leak: whenever the agent has no item in
\* flight (between batches, while sleeping, after the loop has ended) no
\* queue item is in status processing, and the run of every item ends with
\* the item removed from the queue or marked failed.
C39_ProcessingDoesNotLeak ==
  /\ []((\A p \in DOMAIN tasks : tasks[p].pc = "settled")
         => \A i \in 1..Len(queue) : queue[i].status # "processing")
  /\ [][\A p \in Progs :
          (p \in DOMAIN tasks /\ tasks[p].pc # "settled"
             /\ p \in DOMAIN tasks' /\ tasks'[p].pc = "settled")
          => (~Has(queue', p) \/ Find(queue', p).status = "failed")]_vars

\* The agent was stopped during a batch and has left its loop; the only
\* item of the batch was marked processing and ended failed.
C39_Witness ==
  /\ agentPc = "idle" /\ ~running /\ tasks = EmptyDir /\ Len(pending) = 1
  /\ Has(queue, "p1") /\ Find(queue, "p1").status = "failed"
  /\ errors # << >>

\* C40: every pending queue item is eventually drained: while the agent
\* keeps running and every call it makes returns, an item that is pending
\* at some time is later removed from the queue or marked failed.
C40_PendingEventuallyDrained ==
  \A id \in Progs :
    (Has(queue, id) /\ Find(queue, id).status = "pending")
      ~> (~Has(queue, id) \/ Find(queue, id).status = "failed")

\* An item submitted while processQueue was at work on an empty snapshot has
\* been drained by a later iteration: the program is documented.
C40_Witness ==
  /\ upgradeCheckCounter >= 2 /\ ~Has(queue, "p1")
  /\ Has(programs, "p1") /\ Find(programs, "p1").status = "documented"
  /\ agentPc = "sleep"

====
